---------------------------- MODULE Spec2Model ----------------------------
(***************************************************************************)
(* A model of the trading-agent runtime core of anshumantekriwal/ai-engine *)
(* (BaseAgent.js, orderExecutor.js, ws.js, PositionTracker / utils.js,     *)
(* OrderOwnershipStore.js).                                                *)
(*                                                                         *)
(* JavaScript runs one handler at a time, and a handler gives up control   *)
(* only at an `await`.  An action of this model is therefore one handler,  *)
(* or the part of an async handler between two awaits where another        *)
(* handler can run and change what the first one reads afterwards.         *)
(*                                                                         *)
(* The module holds several specifications over the same variables; each   *)
(* one drives one subsystem and leaves the others in their initial state:  *)
(*   SpecPrice  the monitor loop with price triggers                       *)
(*   SpecTech   the monitor loop with technical and composite triggers     *)
(*   SpecLife   polled, scheduled and event triggers with pause, shutdown  *)
(*   SpecShutdown  shutdown with the loop, the timers and the websocket    *)
(*   SpecSafety the daily-loss accumulator and checkSafetyLimits           *)
(*   SpecExec   the order executor: market sizing and the account cache    *)
(*   SpecLedger the order ownership store: placements, cancels, the sweep  *)
(*   SpecOwnership  the ownership store: the sweep and SL/TP fills         *)
(*   SpecQueries  concurrent account queries against the state cache       *)
(*   SpecRetry  retryWithBackoff                                           *)
(*   SpecPositions  the position tracker: entries, exits, reconciliation   *)
(*   SpecPartials   the position tracker: a position closed in parts       *)
(*   SpecFills  the position tracker under SL/TP orders and user fills     *)
(*   SpecRegister   the registration of triggers                           *)
(*   SpecReconnect  the websocket manager: drops, backoff, close()         *)
(*   SpecSubscriptions  the websocket manager: the subscription table      *)
(*   SpecFiles  the JSON files of the tracker and the ownership store      *)
(*   SpecUserEvents  user events with userFill triggers of the strategy    *)
(*   SpecMessages  the websocket manager: the dispatch of inbound messages *)
(***************************************************************************)
EXTENDS Integers, Sequences, FiniteSets, TLC

(***************************************************************************)
(* Bounds of the model.                                                    *)
(***************************************************************************)
\* Triggers a strategy registers in setupTriggers().
MaxTriggers == 2
\* The clock stops advancing after this many technical-evaluation intervals.
MaxNowIntervals == 15
\* Invocations of one callback that can be in progress at once.
MaxConcurrent == 2
\* The maxReconnectAttempts the websocket manager is constructed with.
_maxReconnectAttempts == 5
\* Messages the pending queue of the websocket manager holds.
MaxQueue == 3
\* Save calls per file.
MaxSaves == 3
\* Calendar days the clock of the safety model runs through.
MaxDay == 2
\* Trades (entries, exits, fills, liquidations) the agent makes.
MaxTrades == 3
\* The size, in USD, of a small realized win or loss; a large loss is twice it.
PnlStep == 600
\* The largest withdrawable balance of the account, in whole USD.
MaxBalanceUsd == 2
\* The largest order size requested, in lots of 10^-szDecimals coins.
MaxLots == 8
\* Cache lifetimes (CLEARINGHOUSE_CACHE_TTL_MS) the executor's clock runs for.
MaxCacheLifetimes == 1
\* The largest position the tracker holds for a coin, the closed positions
\* its history holds, the SL/TP orders registered, and the closes of one
\* position that are followed.
MaxPositionSize == 4
MaxClosed == 1
MaxSlTpOrders == 2
MaxPartials == 2
\* The largest maxRetries a caller passes to retryWithBackoff.
MaxMaxRetries == 3
\* config.js: the reconnect delays of the websocket manager, in ms
WS_RECONNECT_BASE_MS == 5000
WS_RECONNECT_MAX_MS == 60000
\* Orders the agent places with a cloid, and orders of other actors that are
\* open on the shared account.
MaxOrders == 2

(***************************************************************************)
(* Program constants.                                                      *)
(***************************************************************************)
TECHNICAL_EVAL_INTERVAL_MS == 10000
TECHNICAL_TRIGGER_RATE_LIMIT_MS == 60000
SleepAfterFireMs == 200
SleepIdleMs == 1000
DEFAULT_DAILY_LOSS_LIMIT == 1000
CLEARINGHOUSE_CACHE_TTL_MS == 3000
\* this.takerFeeRate = 0.00045, as parts per FeeScale
takerFeeRate == 45
FeeScale == 100000
\* parseInt(coinInfo.maxLeverage || "20")
maxLeverage == 20

\* null / undefined of a numeric field (prices and indicator values are > 0)
Null == 0

\* _clearinghouseCache = null
NoState == 0 - 1
\* execCall before any placement or cancellation, lastRead before any read
NoCall == [op |-> "none", reduceOnly |-> FALSE, requested |-> 0, maxSize |-> 0,
           submitted |-> 0, result |-> "none", venue |-> "none",
           cacheAtReturn |-> NoState]
NoRead == [served |-> "none", stale |-> FALSE]
\* state.orders[cloid] of a cloid that was never registered
NoEntry == [orderId |-> Null, status |-> "absent"]
\* No retryWithBackoff() is running.
NoRetry == [state |-> "idle", maxRetries |-> 0, baseDelay |-> 0, attempt |-> 0,
            outcomes |-> <<>>, delays |-> <<>>]
\* The coins of the model.
Coins == {"BTC", "ETH"}
\* openPositions[coin] of a coin with no open position; a position is its
\* entry: side, size, weighted average price and accumulated fee.
NoPosition == [side |-> "none", size |-> 0, price |-> 0, fee |-> 0]
\* null for a closed position
NoRecord ==
  [coin |-> "none", status |-> "none", entry |-> NoPosition,
   exit |-> [size |-> 0, price |-> 0, fee |-> 0, orderType |-> "none"],
   pnl |-> [gross |-> 0, net |-> 0, percent |-> [num |-> 0, den |-> 1],
            estimated |-> FALSE]]
\* pendingSlTp[orderId] of an order that is not pending
NoPending == [coin |-> "none", cloid |-> Null, orderType |-> "none"]
NoEvent ==
  [oid |-> Null, cloid |-> Null, coin |-> "none", sz |-> 0, px |-> 0, fee |-> 0]
\* The fill events of one order id that arrived in a row, up to the one
\* that completes the size the position had when the first arrived: the
\* order, its coin, that size, and the sum of the fills.
NoRun == [oid |-> Null, coin |-> "none", size |-> 0, filled |-> 0]
\* What the fallback of a reconcile did with a fill the feed had delivered
\* just before: whether there was one, how many fills it handled, and
\* whether it changed the tracker.
NoFallback == [seen |-> FALSE, handled |-> 0, changed |-> FALSE]
\* lastOp before any operation on the tracker
NoOp ==
  [op |-> "none", coin |-> "none", before |-> NoPosition, event |-> NoEvent,
   matched |-> FALSE, closed |-> NoRecord, callbacks |-> 0,
   payload |-> NoRecord,
   input |-> [exchangeSize |-> 0, mid |-> 0, recentFills |-> <<>>],
   repeated |-> FALSE, changed |-> FALSE, driftWarnings |-> 0,
   fanOut |-> <<>>, observed |-> {}, run |-> NoRun, fallback |-> NoFallback]
NoPartials == [entry |-> NoPosition, closes |-> <<>>]
\* The account queries a caller can run concurrently; each awaits
\* getClearinghouseState().
Queries == {"getPositions", "getAccountValue", "getAvailableBalance"}
\* lastPlaced before the venue answered any placement
NoPlaced == [cloid |-> 0, op |-> "none", kind |-> "none", orderId |-> 0]

\* lastSafetyCheck before checkSafetyLimits() was ever called
NoSafetyCheck == [called |-> FALSE, allowed |-> TRUE, realizedToday |-> 0]

\* Mid prices the venue can report for the coin; 0 stands for a coin missing
\* from the mids snapshot (parseFloat(mids[coin] || "0")).
MaxPrice == 3
Prices == 0..MaxPrice
\* The threshold used by every registered condition: strictly inside the
\* price range, so that prices below, at and above it all occur.
Threshold == MaxPrice - 1

VARIABLES
  \* ---- BaseAgent fields
  currentState,          \* 'initializing' | 'running' | 'paused' | 'stopped'
  isRunning,
  isPaused,
  activeTriggers,        \* Map triggerId -> trigger config (ids grow with insertion)
  triggerCallbacks,      \* Map triggerId -> callback (its key set)
  nextTriggerId,         \* stands for the unique id generated at registration
  lastRegister,          \* history: the registerCompositeTrigger call made
                         \* last while the strategy sets up its triggers
  \* ---- the clock (Date.now()): epoch milliseconds, so never within one
  \* rate-limit period of the initial lastCheckTime of 0
  now,
  \* ---- locals of monitor() and of the evaluators it awaits
  monitorPc,
  triggerFiredThisLoop,
  loopNow,
  nextTechnicalEvalAt,
  sleepMs,
  evalMids,              \* mids of the running _evaluatePriceTriggers
  evalIter,              \* position of the live Map iterator (last id visited)
  triggersFired,
  priceFired,
  evalQueue,             \* triggersToEval / due: the snapshot being iterated
  evalNow,               \* `now` of the running technical / composite pass
  evalCandles,           \* whether the candle cache holds enough candles
  evalCur,               \* the evaluation whose callback is being awaited
  \* ---- callbacks in progress: triggerId -> number of running invocations
  cbRunning,
  \* ---- history (not program state): what the last evaluations observed
  obsPrice,              \* triggerId -> price seen by its last evaluation
  obsMet,                \* triggerId -> condition seen by its last evaluation
  lastEval,              \* the last single-trigger evaluation
  tick,                  \* the running monitor tick
  lastInvoke,            \* the last callback invocation
  \* ---- shutdown, timers and event handlers of BaseAgent
  _shutdownInProgress,
  shutdownPc,            \* position of _executeShutdown
  shutdownCalls,         \* runs of _executeShutdown started; whether a call
                         \* got the promise of the run in flight
  intervalIds,           \* triggers whose setInterval timer is live
  \* ---- HyperliquidWSManager
  wsSocket,              \* this.ws: "none" | "connecting" | "open"
  isConnected,
  _intentionalClose,
  _reconnectTimer,
  _reconnectAttempts,
  _subscriptions,        \* the subscription Map in insertion order: its
                         \* entries, each a key and its set of callbacks
  wsClosing,             \* a socket released by close() has yet to report closed
  pendingQueue,          \* messages waiting for a connection
  _isFirstConnection,
  _onFatalError,         \* whether a fatal-error callback is registered
  wsLast,                \* history: the last handler of the manager
  reconnectDelays,       \* history: the delays of the reconnects scheduled
                         \* since the connection was last open
  \* ---- daily loss accounting of BaseAgent
  _dailyPnl,
  _dailyPnlDate,
  today,                 \* the current UTC date
  agentTrades,           \* the rows of the agent_trades table: date, pnl
  realized,              \* history: every trade the agent made: date, pnl
  lastSafetyCheck,       \* history: the last checkSafetyLimits() result
  \* ---- OrderExecutor
  _clearinghouseCache,   \* the cached clearinghouseState, or NoState
  _clearinghouseCacheTime,
  venueBalance,          \* the withdrawable balance (cents) the venue reports
  cacheStale,            \* history: a placement or cancellation request was
                         \* answered by the venue since the cache was filled
  execCall,              \* history: the last placement / cancellation call
  lastRead,              \* history: the last getClearinghouseState()
  \* ---- OrderExecutor ownership: OrderOwnershipStore
  agentId,               \* options.agentId, or Null
  orders,                \* orderOwnershipStore.state.orders: cloid -> entry
  nextCloid,             \* the cloid the next _generateCloid() returns
  lastPlaced,            \* history: the last placement the venue answered
  sweepRequests,         \* history: order ids the last sweep asked to cancel
  \* ---- OrderExecutor account queries running concurrently
  queryPc,               \* per query: where its getClearinghouseState() is
  \* ---- utils.js
  retry,                 \* the running retryWithBackoff(fn, maxRetries, baseDelay)
  \* ---- utils.js: PositionTracker
  openPositions,         \* coin -> the open position's entry, or NoPosition
  closedPositions,       \* the history of closed positions
  pendingSlTp,           \* order id -> pending SL/TP entry, or NoPending
  pendingSlTpByCloid,    \* cloid -> order id, or Null
  lastOp,                \* history: the last operation on the tracker
  partials,              \* history: the closes of the position closed last
  \* ---- the JSON files of PositionTracker and OrderOwnershipStore
  saveCount,             \* file -> the save calls made; save n serializes
                         \* the state in memory at that call, data n
  _writeQueue,           \* file -> the data of the writes chained on the
                         \* promise of the file that have not started
  writing,               \* file -> the data of the fsp.writeFile calls
                         \* that have started and not finished
  fileOnDisk,            \* file -> the data of the write that finished last
  \* ---- BaseAgent: the fan-out of user events
  _userEventCallbacks    \* the closures of the userFill triggers, each under
                         \* the id of its trigger, in the order of the array

runVars == <<currentState, isRunning, isPaused>>
triggerVars == <<activeTriggers, triggerCallbacks, nextTriggerId,
                 lastRegister>>
priceLocals == <<evalMids, evalIter, triggersFired, priceFired>>
techLocals == <<evalQueue, evalNow, evalCandles>>
monitorVars == <<monitorPc, triggerFiredThisLoop, loopNow, nextTechnicalEvalAt,
                 sleepMs, evalMids, evalIter, triggersFired, priceFired,
                 evalQueue, evalNow, evalCandles, evalCur>>
ghostVars == <<obsPrice, obsMet, lastEval, tick, lastInvoke>>

lifeVars == <<_shutdownInProgress, shutdownPc, shutdownCalls, intervalIds>>
wsVars == <<wsSocket, isConnected, _intentionalClose, _reconnectTimer,
            _reconnectAttempts, _subscriptions, wsClosing, pendingQueue,
            _isFirstConnection, _onFatalError, wsLast, reconnectDelays>>
safetyVars == <<_dailyPnl, _dailyPnlDate, today, agentTrades, realized,
                lastSafetyCheck>>
ledgerVars == <<agentId, orders, nextCloid, lastPlaced, sweepRequests>>
queryVars == <<queryPc>>
trackerVars == <<openPositions, closedPositions, pendingSlTp,
                 pendingSlTpByCloid, lastOp, partials>>
fileVars == <<saveCount, _writeQueue, writing, fileOnDisk>>
utilsVars == <<retry, trackerVars, fileVars, _userEventCallbacks>>
execVars == <<_clearinghouseCache, _clearinghouseCacheTime, venueBalance,
              cacheStale, execCall, lastRead, ledgerVars, queryVars,
              utilsVars>>

\* everything the polled part of the trigger engine does not touch
restOfEngine == <<lifeVars, wsVars, safetyVars, execVars>>

vars == <<runVars, triggerVars, now, monitorVars, cbRunning, ghostVars,
          restOfEngine>>

TriggerIds == 1..MaxTriggers

NoEval == [id |-> 0, type |-> "none", kind |-> "none", prev |-> Null,
           cur |-> Null, prevMet |-> FALSE, met |-> FALSE, hasCallback |-> FALSE,
           invoked |-> FALSE]
NoTick == [visited |-> {}, midsOk |-> FALSE, threw |-> FALSE,
           fired |-> FALSE]
NoCur == [id |-> 0, prev |-> Null, value |-> Null, met |-> FALSE]

\* The files of the position tracker, each with its promise chain, and the
\* file of the order ownership store.
TrackerFiles == {"positions", "history", "trades"}
Files == TrackerFiles \cup {"ledger"}

\* wsLast before any handler of the websocket manager ran
NoWsOp == [op |-> "none", key |-> "none", callback |-> 0, had |-> FALSE,
           callbacks |-> {}, emitted |-> <<>>, sent |-> <<>>,
           queuedBefore |-> <<>>, fatal |-> FALSE,
           msg |-> [channel |-> "", coin |-> ""], called |-> {},
           raised |-> FALSE, subsBefore |-> <<>>]

\* lastRegister before any registerCompositeTrigger call
NoRegister == [operator |-> "none", count |-> 0, threw |-> FALSE,
               added |-> FALSE]

NoInvoke == [id |-> 0, type |-> "none", registered |-> FALSE, paused |-> FALSE,
             closing |-> FALSE, concurrent |-> FALSE]

\* The record of a callback invocation: whether, when it was made, the
\* trigger was registered, the agent paused, the shutdown past its wait, and
\* an earlier invocation of the same callback in progress.
Invocation(id, type) ==
  [id |-> id, type |-> type, registered |-> id \in triggerCallbacks,
   paused |-> isPaused,
   closing |-> shutdownPc \in {"closing", "final", "done", "failed"},
   concurrent |-> cbRunning[id] > 0]

(***************************************************************************)
(* Price triggers.                                                         *)
(***************************************************************************)
\* The condition objects a strategy passes: { above: N } | { below: N } |
\* { crosses: N }.
PriceConditions ==
  { [above |-> Threshold, below |-> Null, crosses |-> Null],
    [above |-> Null, below |-> Threshold, crosses |-> Null],
    [above |-> Null, below |-> Null, crosses |-> Threshold] }

\* A plausible slip: the crosses branch without its hasLastPrice guard, so a
\* missing last price compares as 0.
PriceShouldTriggerNoFirstGuard(condition, lastPrice, currentPrice) ==
  LET hasAbove == condition.above # Null
      hasBelow == condition.below # Null
      hasCrosses == condition.crosses # Null
      hasLastPrice == lastPrice # Null
  IN  IF hasAbove /\ currentPrice > condition.above
         /\ (~hasLastPrice \/ lastPrice <= condition.above)
      THEN TRUE
      ELSE IF hasBelow /\ currentPrice < condition.below
              /\ (~hasLastPrice \/ lastPrice >= condition.below)
      THEN TRUE
      ELSE IF hasCrosses
      THEN \/ (lastPrice < condition.crosses /\ currentPrice >= condition.crosses)
           \/ (lastPrice > condition.crosses /\ currentPrice <= condition.crosses)
      ELSE FALSE

\* shouldTrigger of _evaluatePriceTriggers.
PriceShouldTrigger(condition, lastPrice, currentPrice) ==
  LET hasAbove == condition.above # Null
      hasBelow == condition.below # Null
      hasCrosses == condition.crosses # Null
      hasLastPrice == lastPrice # Null
  IN  IF hasAbove /\ currentPrice > condition.above
         /\ (~hasLastPrice \/ lastPrice <= condition.above)
      THEN TRUE
      ELSE IF hasBelow /\ currentPrice < condition.below
              /\ (~hasLastPrice \/ lastPrice >= condition.below)
      THEN TRUE
      ELSE IF hasCrosses /\ hasLastPrice
      THEN \/ (lastPrice < condition.crosses /\ currentPrice >= condition.crosses)
           \/ (lastPrice > condition.crosses /\ currentPrice <= condition.crosses)
      ELSE FALSE

\* registerPriceTrigger(coin, condition, callback).  Strategies register
\* their triggers in setupTriggers(), which start() awaits before the agent
\* runs.
registerPriceTrigger(condition) ==
  /\ currentState = "initializing"
  /\ nextTriggerId <= MaxTriggers
  /\ activeTriggers' = [id \in DOMAIN activeTriggers \cup {nextTriggerId} |->
        IF id = nextTriggerId
        THEN [type |-> "price", condition |-> condition, lastPrice |-> Null]
        ELSE activeTriggers[id]]
  /\ triggerCallbacks' = triggerCallbacks \cup {nextTriggerId}
  /\ nextTriggerId' = nextTriggerId + 1
  /\ UNCHANGED lastRegister
  /\ UNCHANGED <<runVars, now, monitorVars, cbRunning, ghostVars,
                 restOfEngine>>

\* removeTrigger(triggerId): clearInterval for a scheduled trigger, then the
\* two Map entries are deleted.  Nothing is unsubscribed.
removeTrigger(triggerId) ==
  /\ triggerId \in DOMAIN activeTriggers
  /\ intervalIds' = IF activeTriggers[triggerId].type = "scheduled"
                    THEN intervalIds \ {triggerId}
                    ELSE intervalIds
  /\ activeTriggers' = [id \in DOMAIN activeTriggers \ {triggerId} |->
                          activeTriggers[id]]
  /\ triggerCallbacks' = triggerCallbacks \ {triggerId}
  /\ UNCHANGED <<runVars, nextTriggerId, lastRegister, now, monitorVars, cbRunning,
                 ghostVars, _shutdownInProgress, shutdownPc, shutdownCalls,
                 wsVars,
                 safetyVars, execVars>>

\* The key a price condition object carries.
PriceKind(condition) ==
  IF condition.above # Null THEN "above"
  ELSE IF condition.below # Null THEN "below"
  ELSE "crosses"

\* Whether an above/below condition is satisfied at a price.
PriceMet(condition, price) ==
  IF condition.above # Null THEN price > condition.above
  ELSE IF condition.below # Null THEN price < condition.below
  ELSE FALSE

\* The first Map entry after the iterator's position that has the type.
NextOfType(type, after) ==
  LET rest == {id \in DOMAIN activeTriggers :
                 id > after /\ activeTriggers[id].type = type}
  IN  IF rest = {} THEN 0
      ELSE CHOOSE id \in rest : \A other \in rest : id <= other

(***************************************************************************)
(* The state after `new BaseAgent(config)`.                                *)
(***************************************************************************)
InitEngine ==
  /\ currentState = "initializing"
  /\ isRunning = FALSE
  /\ isPaused = FALSE
  /\ activeTriggers = <<>>
  /\ triggerCallbacks = {}
  /\ nextTriggerId = 1
  /\ lastRegister = NoRegister
  /\ now = TECHNICAL_TRIGGER_RATE_LIMIT_MS
  /\ monitorPc = "off"
  /\ triggerFiredThisLoop = FALSE
  /\ loopNow = 0
  /\ nextTechnicalEvalAt = 0
  /\ sleepMs = 0
  /\ evalMids = 0
  /\ evalIter = 0
  /\ triggersFired = 0
  /\ priceFired = FALSE
  /\ evalQueue = <<>>
  /\ evalNow = 0
  /\ evalCandles = FALSE
  /\ evalCur = NoCur
  /\ cbRunning = [id \in TriggerIds |-> 0]
  /\ obsPrice = [id \in TriggerIds |-> Null]
  /\ obsMet = [id \in TriggerIds |-> "none"]
  /\ lastEval = NoEval
  /\ tick = NoTick
  /\ lastInvoke = NoInvoke


\* The websocket manager is constructed by the BaseAgent constructor and
\* connects at once.
InitLife ==
  /\ _shutdownInProgress = FALSE
  /\ shutdownPc = "idle"
  /\ shutdownCalls = [runs |-> 0, joined |-> FALSE]
  /\ intervalIds = {}
  /\ wsSocket = "connecting"
  /\ isConnected = FALSE
  /\ _intentionalClose = FALSE
  /\ _reconnectTimer = FALSE
  /\ _reconnectAttempts = 0
  /\ _subscriptions = <<>>
  /\ wsClosing = FALSE
  /\ pendingQueue = <<>>
  /\ _isFirstConnection = TRUE
  /\ _onFatalError = FALSE
  /\ wsLast = NoWsOp
  /\ reconnectDelays = <<>>

InitSafety ==
  /\ _dailyPnl = 0
  /\ _dailyPnlDate = 1
  /\ today = 1
  /\ agentTrades = <<>>
  /\ realized = <<>>
  /\ lastSafetyCheck = NoSafetyCheck

\* new OrderExecutor(privateKey, userAddress, isMainnet, { agentId: id })
InitExecutor(id) ==
  /\ _clearinghouseCache = NoState
  /\ _clearinghouseCacheTime = 0
  /\ venueBalance = 0
  /\ cacheStale = FALSE
  /\ execCall = NoCall
  /\ lastRead = NoRead
  /\ agentId = id
  /\ orders = [cloid \in 1 .. MaxOrders |-> NoEntry]
  /\ nextCloid = 1
  /\ lastPlaced = NoPlaced
  /\ sweepRequests = {}
  /\ queryPc = [query \in Queries |-> "idle"]
  /\ retry = NoRetry
  /\ openPositions = [coin \in Coins |-> NoPosition]
  /\ closedPositions = <<>>
  /\ pendingSlTp = [oid \in 1 .. MaxSlTpOrders |-> NoPending]
  /\ pendingSlTpByCloid = [cloid \in 1 .. MaxSlTpOrders |-> Null]
  /\ lastOp = NoOp
  /\ partials = NoPartials
  /\ saveCount = [file \in Files |-> 0]
  /\ _writeQueue = [file \in Files |-> <<>>]
  /\ writing = [file \in Files |-> {}]
  /\ fileOnDisk = [file \in Files |-> 0]
  /\ _userEventCallbacks = <<>>

\* The executor a BaseAgent constructs: it passes its agentId.
InitExec == InitExecutor(1)

Init == InitEngine /\ InitLife /\ InitSafety /\ InitExec

\* An executor used on its own, constructed without options.agentId: it has
\* no ownership store and generates no cloid.
InitStandalone == InitEngine /\ InitLife /\ InitSafety /\ InitExecutor(Null)

(***************************************************************************)
(* start() and the monitor loop.                                           *)
(***************************************************************************)
\* start(), up to the point where it flags the agent as running.  The agent
\* is started once.
StartAgent ==
  /\ currentState = "initializing"
  /\ ~isRunning
  /\ isRunning' = TRUE
  /\ currentState' = "running"
  /\ monitorPc' = "starting"
  /\ lastRegister' = NoRegister
  /\ UNCHANGED <<isPaused, activeTriggers, triggerCallbacks, nextTriggerId,
                 now, triggerFiredThisLoop, loopNow,
                 nextTechnicalEvalAt, sleepMs, evalMids, evalIter,
                 triggersFired, priceFired, techLocals, evalCur, cbRunning,
                 ghostVars, restOfEngine>>

\* monitor() is entered: the deadlines of the periodic work are set.
MonitorStart ==
  /\ monitorPc = "starting"
  /\ nextTechnicalEvalAt' = now + TECHNICAL_EVAL_INTERVAL_MS
  /\ monitorPc' = "loop"
  /\ UNCHANGED <<runVars, triggerVars, now, triggerFiredThisLoop, loopNow,
                 sleepMs, evalMids, evalIter, triggersFired, priceFired,
                 techLocals, evalCur, cbRunning, ghostVars, restOfEngine>>

\* while (this.isRunning) { triggerFiredThisLoop = false; if (!isPaused) ...
MonitorLoopTest ==
  /\ monitorPc = "loop"
  /\ IF ~isRunning
     THEN /\ monitorPc' = "exited"
          /\ UNCHANGED <<triggerFiredThisLoop, loopNow, sleepMs, tick>>
     ELSE /\ triggerFiredThisLoop' = FALSE
          /\ tick' = NoTick
          /\ IF isPaused
             THEN /\ sleepMs' = SleepIdleMs
                  /\ monitorPc' = "sleep"
                  /\ UNCHANGED loopNow
             ELSE /\ loopNow' = now
                  /\ monitorPc' = "mids"
                  /\ UNCHANGED sleepMs
  /\ UNCHANGED <<runVars, triggerVars, now, nextTechnicalEvalAt, evalMids,
                 evalIter, triggersFired, priceFired, techLocals, evalCur,
                 cbRunning, obsPrice, obsMet, lastEval, restOfEngine,
                 lastInvoke>>

\* The sleep at the end of an iteration is over.
MonitorWake ==
  /\ monitorPc = "sleep"
  /\ monitorPc' = "loop"
  /\ UNCHANGED <<runVars, triggerVars, now, triggerFiredThisLoop, loopNow,
                 nextTechnicalEvalAt, sleepMs, evalMids, evalIter,
                 triggersFired, priceFired, techLocals, evalCur, cbRunning,
                 ghostVars, restOfEngine>>

(***************************************************************************)
(* _evaluatePriceTriggers()                                                *)
(***************************************************************************)
\* The record of one finished price evaluation.
PriceEval(id, prev, cur, invoked) ==
  [id |-> id, type |-> "price",
   kind |-> PriceKind(activeTriggers[id].condition),
   prev |-> prev, cur |-> cur,
   prevMet |-> PriceMet(activeTriggers[id].condition, prev),
   met |-> PriceMet(activeTriggers[id].condition, cur),
   hasCallback |-> id \in triggerCallbacks,
   invoked |-> invoked]

\* `trigger.lastPrice = currentPrice` on the trigger object the loop holds; a
\* trigger removed meanwhile is no longer in the Map.
SetLastPrice(id, price) ==
  IF id \in DOMAIN activeTriggers
  THEN [activeTriggers EXCEPT ![id].lastPrice = price]
  ELSE activeTriggers

\* const mids = await this._getCurrentMids() returns the snapshot.
MonitorPriceMids(price) ==
  /\ monitorPc = "mids"
  /\ evalMids' = price
  /\ evalIter' = 0
  /\ triggersFired' = 0
  /\ tick' = [tick EXCEPT !.midsOk = TRUE]
  /\ monitorPc' = "priceLoop"
  /\ UNCHANGED <<runVars, triggerVars, now, triggerFiredThisLoop, loopNow,
                 nextTechnicalEvalAt, sleepMs, priceFired, techLocals, evalCur,
                 cbRunning, obsPrice, obsMet, lastEval, restOfEngine,
                 lastInvoke>>

\* The REST fallback of _getCurrentMids() rejects: the catch returns false.
MonitorPriceMidsFail ==
  /\ monitorPc = "mids"
  /\ priceFired' = FALSE
  /\ monitorPc' = "afterPrice"
  /\ UNCHANGED <<runVars, triggerVars, now, triggerFiredThisLoop, loopNow,
                 nextTechnicalEvalAt, sleepMs, evalMids, evalIter,
                 triggersFired, techLocals, evalCur, cbRunning, ghostVars,
                 restOfEngine>>

\* One iteration of `for (const [triggerId, trigger] of activeTriggers)`, up
\* to the await of updateState when the trigger fires; or the end of the loop.
MonitorPriceNext ==
  /\ monitorPc = "priceLoop"
  /\ LET id == NextOfType("price", evalIter)
         currentPrice == evalMids
     IN  IF id = 0
         THEN \* return triggersFired > 0; the locals are gone
              /\ priceFired' = (triggersFired > 0)
              /\ evalMids' = 0
              /\ evalIter' = 0
              /\ triggersFired' = 0
              /\ monitorPc' = "afterPrice"
              /\ UNCHANGED <<activeTriggers, evalCur, obsPrice, lastEval, tick>>
         ELSE /\ evalIter' = id
              /\ tick' = [tick EXCEPT !.visited = @ \cup {id}]
              /\ UNCHANGED <<priceFired, evalMids>>
              /\ IF currentPrice = 0
                 THEN /\ monitorPc' = "priceLoop"
                      /\ UNCHANGED <<activeTriggers, triggersFired, evalCur,
                                     obsPrice, lastEval>>
                 ELSE /\ obsPrice' = [obsPrice EXCEPT ![id] = currentPrice]
                      /\ IF PriceShouldTrigger(activeTriggers[id].condition,
                                               activeTriggers[id].lastPrice,
                                               currentPrice)
                         THEN /\ triggersFired' = triggersFired + 1
                              /\ evalCur' = [id |-> id, prev |-> obsPrice[id],
                                             value |-> currentPrice, met |-> TRUE]
                              /\ monitorPc' = "priceFire"
                              /\ UNCHANGED <<activeTriggers, lastEval>>
                         ELSE /\ activeTriggers' = SetLastPrice(id, currentPrice)
                              /\ lastEval' = PriceEval(id, obsPrice[id],
                                                       currentPrice, FALSE)
                              /\ monitorPc' = "priceLoop"
                              /\ UNCHANGED <<triggersFired, evalCur>>
  /\ UNCHANGED <<runVars, triggerCallbacks, nextTriggerId, lastRegister, now,
                 triggerFiredThisLoop, loopNow, nextTechnicalEvalAt, sleepMs,
                 techLocals, cbRunning, obsMet, restOfEngine,
                 lastInvoke>>

\* updateState('trigger_fired') has settled: the callback is looked up and,
\* when still registered, invoked.
MonitorPriceInvoke ==
  /\ monitorPc = "priceFire"
  /\ IF evalCur.id \in triggerCallbacks
     THEN /\ cbRunning' = [cbRunning EXCEPT ![evalCur.id] = @ + 1]
          /\ lastEval' = PriceEval(evalCur.id, evalCur.prev, evalCur.value, TRUE)
          /\ lastInvoke' = Invocation(evalCur.id, "price")
          /\ monitorPc' = "priceCallback"
          /\ UNCHANGED <<activeTriggers, evalCur>>
     ELSE /\ activeTriggers' = SetLastPrice(evalCur.id, evalCur.value)
          /\ lastEval' = [NoEval EXCEPT !.id = evalCur.id, !.type = "price",
                                        !.prev = evalCur.prev,
                                        !.cur = evalCur.value]
          /\ evalCur' = NoCur
          /\ monitorPc' = "priceLoop"
          /\ UNCHANGED <<cbRunning, lastInvoke>>
  /\ tick' = [tick EXCEPT !.fired = TRUE]
  /\ UNCHANGED <<runVars, triggerCallbacks, nextTriggerId, lastRegister, now,
                 triggerFiredThisLoop, loopNow, nextTechnicalEvalAt, sleepMs,
                 evalMids, evalIter, triggersFired, priceFired, techLocals,
                 obsPrice, obsMet, restOfEngine>>

\* await callback(...) resolves: the last price is recorded.
MonitorPriceCallbackReturns ==
  /\ monitorPc = "priceCallback"
  /\ cbRunning' = [cbRunning EXCEPT ![evalCur.id] = @ - 1]
  /\ activeTriggers' = SetLastPrice(evalCur.id, evalCur.value)
  /\ evalCur' = NoCur
  /\ monitorPc' = "priceLoop"
  /\ UNCHANGED <<runVars, triggerCallbacks, nextTriggerId, lastRegister, now,
                 triggerFiredThisLoop, loopNow, nextTechnicalEvalAt, sleepMs,
                 evalMids, evalIter, triggersFired, priceFired, techLocals,
                 ghostVars, restOfEngine>>

\* await callback(...) rejects: the function-level catch returns false.
MonitorPriceCallbackThrows ==
  /\ monitorPc = "priceCallback"
  /\ cbRunning' = [cbRunning EXCEPT ![evalCur.id] = @ - 1]
  /\ evalCur' = NoCur
  /\ priceFired' = FALSE
  /\ evalMids' = 0
  /\ evalIter' = 0
  /\ triggersFired' = 0
  /\ tick' = [tick EXCEPT !.threw = TRUE]
  /\ monitorPc' = "afterPrice"
  /\ UNCHANGED <<runVars, triggerVars, now, triggerFiredThisLoop, loopNow,
                 nextTechnicalEvalAt, sleepMs, techLocals, obsPrice, obsMet,
                 lastEval, restOfEngine,
                 lastInvoke>>

\* Back in monitor(): `if (priceFired) triggerFiredThisLoop = true`, then the
\* 10 s gate of the technical and composite evaluation.  When the gate is
\* closed the iteration ends with the adaptive sleep.
MonitorAfterPrice ==
  /\ monitorPc = "afterPrice"
  /\ triggerFiredThisLoop' = (triggerFiredThisLoop \/ priceFired)
  /\ priceFired' = FALSE
  /\ IF loopNow >= nextTechnicalEvalAt
     THEN /\ monitorPc' = "technical"
          /\ UNCHANGED <<sleepMs, loopNow>>
     ELSE /\ sleepMs' = IF triggerFiredThisLoop' THEN SleepAfterFireMs
                                                ELSE SleepIdleMs
          /\ loopNow' = 0
          /\ monitorPc' = "sleep"
  /\ UNCHANGED <<runVars, triggerVars, now, nextTechnicalEvalAt, evalMids,
                 evalIter, triggersFired, techLocals, evalCur, cbRunning,
                 ghostVars, restOfEngine>>

\* The monitor loop with price triggers only.
NextPrice ==
  \/ \E condition \in PriceConditions : registerPriceTrigger(condition)
  \/ \E triggerId \in TriggerIds : removeTrigger(triggerId)
  \/ StartAgent
  \/ MonitorStart
  \/ MonitorLoopTest
  \/ \E price \in Prices : MonitorPriceMids(price)
  \/ MonitorPriceMidsFail
  \/ MonitorPriceNext
  \/ MonitorPriceInvoke
  \/ MonitorPriceCallbackReturns
  \/ MonitorPriceCallbackThrows
  \/ MonitorAfterPrice
  \/ MonitorWake

SpecPrice == Init /\ [][NextPrice]_vars

(***************************************************************************)
(* Technical triggers.                                                     *)
(***************************************************************************)
\* Indicator values are whole numbers of a unit larger than the tolerance of
\* compareFloats; rounding them to 6 decimals (toPrecision) changes nothing.
Values == 1..MaxPrice

compareFloats(a, b) == a = b

\* The condition shapes of registerTechnicalTrigger that look at one series:
\* { above: N } { below: N } { between: [lo, hi] } { outside: [lo, hi] }
\* { crosses_above: N } { crosses_below: N }.
TechnicalKinds ==
  {"above", "below", "between", "outside", "crosses_above", "crosses_below"}

TechnicalConditions ==
  {[kind |-> k, threshold |-> Threshold, lo |-> Threshold, hi |-> Threshold] :
     k \in TechnicalKinds}

\* What computing the indicator on the candles gives: the last two samples
\* of the series, no value, or an exception.
ComputeOutcomes ==
  {[kind |-> "throws", prev |-> Null, curr |-> Null],
   [kind |-> "null", prev |-> Null, curr |-> Null]}
  \cup {[kind |-> "series", prev |-> a, curr |-> b] : a \in Values, b \in Values}

\* conditionMet of _evaluateTechnicalTriggers for a computed series.
TechnicalConditionMet(condition, prev, curr) ==
  IF condition.kind = "crosses_above"
  THEN prev <= condition.threshold /\ curr > condition.threshold
  ELSE IF condition.kind = "crosses_below"
  THEN prev >= condition.threshold /\ curr < condition.threshold
  ELSE IF condition.kind = "above"
  THEN curr > condition.threshold /\ ~compareFloats(curr, condition.threshold)
  ELSE IF condition.kind = "below"
  THEN curr < condition.threshold /\ ~compareFloats(curr, condition.threshold)
  ELSE IF condition.kind = "between"
  THEN curr >= condition.lo /\ curr <= condition.hi
  ELSE IF condition.kind = "outside"
  THEN curr < condition.lo \/ curr > condition.hi
  ELSE FALSE

\* registerTechnicalTrigger(coin, indicator, params, condition, callback)
registerTechnicalTrigger(condition) ==
  /\ currentState = "initializing"
  /\ nextTriggerId <= MaxTriggers
  /\ activeTriggers' = [id \in DOMAIN activeTriggers \cup {nextTriggerId} |->
        IF id = nextTriggerId
        THEN [type |-> "technical", condition |-> condition,
              lastValue |-> Null, lastConditionMet |-> FALSE,
              lastCheckTime |-> 0]
        ELSE activeTriggers[id]]
  /\ triggerCallbacks' = triggerCallbacks \cup {nextTriggerId}
  /\ nextTriggerId' = nextTriggerId + 1
  /\ UNCHANGED lastRegister
  /\ UNCHANGED <<runVars, now, monitorVars, cbRunning, ghostVars,
                 restOfEngine>>

\* The Map entries of a type that pass the per-trigger rate limit, in Map
\* order: Array.from(activeTriggers.entries()).filter(...).filter(...)
RECURSIVE DueFrom(_, _, _)
DueFrom(type, after, at) ==
  LET id == NextOfType(type, after)
  IN  IF id = 0 THEN <<>>
      ELSE IF at - activeTriggers[id].lastCheckTime
                >= TECHNICAL_TRIGGER_RATE_LIMIT_MS
      THEN <<id>> \o DueFrom(type, id, at)
      ELSE DueFrom(type, id, at)

\* A write through the trigger object held by the snapshot; an object removed
\* from the Map meanwhile is not engine state any more.
SetEdgeState(triggers, id, met, value) ==
  IF id \in DOMAIN triggers
  THEN [triggers EXCEPT ![id].lastConditionMet = met, ![id].lastValue = value]
  ELSE triggers

\* The record of one finished technical or composite evaluation.
EdgeEval(id, type, prevMet, met, invoked) ==
  [id |-> id, type |-> type, kind |-> "edge", prev |-> Null, cur |-> Null,
   prevMet |-> prevMet, met |-> met,
   hasCallback |-> id \in triggerCallbacks, invoked |-> invoked]

\* _evaluateTechnicalTriggers() up to the await of the candle fetches.
MonitorTechBegin ==
  /\ monitorPc = "technical"
  /\ LET triggersToEval == DueFrom("technical", 0, now)
     IN  IF triggersToEval = <<>>
         THEN /\ monitorPc' = "composite"
              /\ UNCHANGED techLocals
         ELSE /\ evalQueue' = triggersToEval
              /\ evalNow' = now
              /\ monitorPc' = "techCandles"
              /\ UNCHANGED evalCandles
  /\ UNCHANGED <<runVars, triggerVars, now, triggerFiredThisLoop, loopNow,
                 nextTechnicalEvalAt, sleepMs, priceLocals, evalCur,
                 cbRunning, ghostVars, restOfEngine>>

\* await Promise.all(candlePromises): the candles of the one coin:interval
\* key arrive, enough of them or not (a failed fetch caches null).
MonitorTechCandles(enough) ==
  /\ monitorPc = "techCandles"
  /\ evalCandles' = enough
  /\ monitorPc' = "techLoop"
  /\ UNCHANGED <<runVars, triggerVars, now, triggerFiredThisLoop, loopNow,
                 nextTechnicalEvalAt, sleepMs, priceLocals, evalQueue,
                 evalNow, evalCur, cbRunning, ghostVars, restOfEngine>>

\* One iteration of `for (const [triggerId, trigger] of triggersToEval)`, up
\* to the await of updateState('trigger_fired') when the trigger fires; or
\* the end of the loop.
MonitorTechNext(outcome) ==
  /\ monitorPc = "techLoop"
  /\ IF evalQueue = <<>>
     THEN \* the loop is over; the locals are gone
          /\ evalNow' = 0
          /\ evalCandles' = FALSE
          /\ monitorPc' = "composite"
          /\ UNCHANGED <<activeTriggers, evalQueue, evalCur, obsMet, lastEval>>
     ELSE LET id == Head(evalQueue)
              checked == [activeTriggers EXCEPT ![id].lastCheckTime = evalNow]
              condition == activeTriggers[id].condition
              twoSamples == condition.kind \in {"crosses_above", "crosses_below"}
              conditionMet ==
                /\ outcome.kind = "series"
                /\ TechnicalConditionMet(condition, outcome.prev, outcome.curr)
              indicatorValue == outcome.curr
              wasMet == activeTriggers[id].lastConditionMet
          IN  /\ evalQueue' = Tail(evalQueue)
              /\ UNCHANGED <<evalNow, evalCandles>>
              /\ IF id \notin DOMAIN activeTriggers
                 THEN \* removed since the snapshot: no callback to look up
                      /\ monitorPc' = "techLoop"
                      /\ UNCHANGED <<activeTriggers, evalCur, obsMet, lastEval>>
                 ELSE IF \/ ~evalCandles
                         \/ outcome.kind = "throws"
                         \/ (outcome.kind = "null" /\ ~twoSamples)
                 THEN \* insufficient data, an exception, or no value
                      /\ activeTriggers' = checked
                      /\ monitorPc' = "techLoop"
                      /\ UNCHANGED <<evalCur, obsMet, lastEval>>
                 ELSE /\ obsMet' = [obsMet EXCEPT ![id] =
                                      IF conditionMet THEN "met" ELSE "notmet"]
                      /\ IF conditionMet /\ ~wasMet
                         THEN /\ activeTriggers' = checked
                              /\ evalCur' = [id |-> id, prev |-> obsMet[id],
                                             value |-> indicatorValue,
                                             met |-> conditionMet]
                              /\ monitorPc' = "techFire"
                              /\ UNCHANGED lastEval
                         ELSE /\ activeTriggers' =
                                   SetEdgeState(checked, id, conditionMet,
                                                indicatorValue)
                              /\ lastEval' = EdgeEval(id, "technical",
                                                      obsMet[id] = "met",
                                                      conditionMet, FALSE)
                              /\ monitorPc' = "techLoop"
                              /\ UNCHANGED evalCur
  /\ UNCHANGED <<runVars, triggerCallbacks, nextTriggerId, lastRegister, now,
                 triggerFiredThisLoop, loopNow, nextTechnicalEvalAt, sleepMs,
                 priceLocals, cbRunning, obsPrice, tick, restOfEngine,
                 lastInvoke>>

\* updateState('trigger_fired') has settled: the callback is looked up and,
\* when still registered, invoked.
MonitorTechInvoke ==
  /\ monitorPc = "techFire"
  /\ IF evalCur.id \in triggerCallbacks
     THEN /\ cbRunning' = [cbRunning EXCEPT ![evalCur.id] = @ + 1]
          /\ lastEval' = EdgeEval(evalCur.id, "technical", evalCur.prev = "met",
                                  evalCur.met, TRUE)
          /\ lastInvoke' = Invocation(evalCur.id, "technical")
          /\ monitorPc' = "techCallback"
          /\ UNCHANGED <<activeTriggers, evalCur>>
     ELSE /\ activeTriggers' = SetEdgeState(activeTriggers, evalCur.id,
                                            evalCur.met, evalCur.value)
          /\ lastEval' = EdgeEval(evalCur.id, "technical", evalCur.prev = "met",
                                  evalCur.met, FALSE)
          /\ evalCur' = NoCur
          /\ monitorPc' = "techLoop"
          /\ UNCHANGED <<cbRunning, lastInvoke>>
  /\ tick' = [tick EXCEPT !.fired = TRUE]
  /\ UNCHANGED <<runVars, triggerCallbacks, nextTriggerId, lastRegister, now,
                 triggerFiredThisLoop, loopNow, nextTechnicalEvalAt, sleepMs,
                 priceLocals, techLocals, obsPrice, obsMet, restOfEngine>>

\* await callback(...) resolves: the edge state is recorded.
MonitorTechCallbackReturns ==
  /\ monitorPc = "techCallback"
  /\ cbRunning' = [cbRunning EXCEPT ![evalCur.id] = @ - 1]
  /\ activeTriggers' = SetEdgeState(activeTriggers, evalCur.id, evalCur.met,
                                    evalCur.value)
  /\ evalCur' = NoCur
  /\ monitorPc' = "techLoop"
  /\ UNCHANGED <<runVars, triggerCallbacks, nextTriggerId, lastRegister, now,
                 triggerFiredThisLoop, loopNow, nextTechnicalEvalAt, sleepMs,
                 priceLocals, techLocals, ghostVars, restOfEngine>>

\* await callback(...) rejects: the per-trigger catch logs it and the loop
\* goes on with the next trigger.
MonitorTechCallbackThrows ==
  /\ monitorPc = "techCallback"
  /\ cbRunning' = [cbRunning EXCEPT ![evalCur.id] = @ - 1]
  /\ evalCur' = NoCur
  /\ tick' = [tick EXCEPT !.threw = TRUE]
  /\ monitorPc' = "techLoop"
  /\ UNCHANGED <<runVars, triggerVars, now, triggerFiredThisLoop, loopNow,
                 nextTechnicalEvalAt, sleepMs, priceLocals, techLocals,
                 obsPrice, obsMet, lastEval, restOfEngine,
                 lastInvoke>>

(***************************************************************************)
(* Composite triggers.                                                     *)
(***************************************************************************)
\* The sub-conditions a strategy passes, each on an indicator of its own:
\* the first `count` of { above: N } on one and { below: N } on another.
SubConditionTemplates ==
  <<[kind |-> "above", threshold |-> Threshold, lo |-> Threshold,
     hi |-> Threshold],
    [kind |-> "below", threshold |-> Threshold, lo |-> Threshold,
     hi |-> Threshold]>>

SubConditionList(count) == SubSeq(SubConditionTemplates, 1, count)

MaxSubConditions == Len(SubConditionTemplates)
Operators == {"AND", "OR", "XOR"}

\* The validation of registerCompositeTrigger passes the operator alone.
CompositeConfigErrorOfOperator(operator, subConditions) ==
  operator \notin {"AND", "OR"}

\* The two throws at the head of registerCompositeTrigger: an operator that
\* is neither AND nor OR, fewer than 2 sub-conditions.
CompositeConfigError(operator, subConditions) ==
  operator \notin {"AND", "OR"} \/ Len(subConditions) < 2

\* registerCompositeTrigger(coin, operator, subConditions, callback): a bad
\* operator or fewer than two sub-conditions throw before anything is stored.
registerCompositeTrigger(operator, subConditions) ==
  /\ currentState = "initializing"
  /\ nextTriggerId <= MaxTriggers
  /\ IF CompositeConfigError(operator, subConditions)
     THEN UNCHANGED <<activeTriggers, triggerCallbacks, nextTriggerId>>
     ELSE /\ activeTriggers' =
               [id \in DOMAIN activeTriggers \cup {nextTriggerId} |->
                  IF id = nextTriggerId
                  THEN [type |-> "composite", operator |-> operator,
                        subConditions |->
                          [i \in DOMAIN subConditions |->
                             [condition |-> subConditions[i],
                              lastConditionMet |-> FALSE,
                              lastValue |-> Null]],
                        lastConditionMet |-> FALSE, lastCheckTime |-> 0]
                  ELSE activeTriggers[id]]
          /\ triggerCallbacks' = triggerCallbacks \cup {nextTriggerId}
          /\ nextTriggerId' = nextTriggerId + 1
  /\ lastRegister' =
       [operator |-> operator, count |-> Len(subConditions),
        threw |-> CompositeConfigError(operator, subConditions),
        added |-> \/ DOMAIN activeTriggers' # DOMAIN activeTriggers
                  \/ triggerCallbacks' # triggerCallbacks]
  /\ UNCHANGED <<runVars, now, monitorVars, cbRunning, ghostVars,
                 restOfEngine>>

\* What compute() gives for a threshold sub-condition: a value, none, or an
\* exception.
SubOutcomes ==
  {o \in ComputeOutcomes : o.prev = o.curr}

\* _evaluateSubCondition(sc, candleData) for a computed outcome.
_evaluateSubCondition(sc, outcome) ==
  IF outcome.kind = "series"
  THEN [met |-> TechnicalConditionMet(sc.condition, outcome.prev, outcome.curr),
        value |-> outcome.curr]
  ELSE [met |-> FALSE, value |-> Null]

\* trigger.operator === 'AND' ? subResults.every(met) : subResults.some(met)
CompositeMet(operator, subResults) ==
  IF operator = "AND"
  THEN \A i \in DOMAIN subResults : subResults[i].met
  ELSE \E i \in DOMAIN subResults : subResults[i].met

SetCompositeMet(triggers, id, met) ==
  IF id \in DOMAIN triggers
  THEN [triggers EXCEPT ![id].lastConditionMet = met]
  ELSE triggers

\* _evaluateCompositeTriggers() up to the await of the candle fetches.
MonitorCompBegin ==
  /\ monitorPc = "composite"
  /\ LET due == DueFrom("composite", 0, now)
     IN  IF due = <<>>
         THEN /\ monitorPc' = "afterTechnical"
              /\ UNCHANGED techLocals
         ELSE /\ evalQueue' = due
              /\ evalNow' = now
              /\ monitorPc' = "compCandles"
              /\ UNCHANGED evalCandles
  /\ UNCHANGED <<runVars, triggerVars, now, triggerFiredThisLoop, loopNow,
                 nextTechnicalEvalAt, sleepMs, priceLocals, evalCur,
                 cbRunning, ghostVars, restOfEngine>>

\* The candles of the one coin:interval key arrive, enough of them or not.
MonitorCompCandles(enough) ==
  /\ monitorPc = "compCandles"
  /\ evalCandles' = enough
  /\ monitorPc' = "compLoop"
  /\ UNCHANGED <<runVars, triggerVars, now, triggerFiredThisLoop, loopNow,
                 nextTechnicalEvalAt, sleepMs, priceLocals, evalQueue,
                 evalNow, evalCur, cbRunning, ghostVars, restOfEngine>>

\* One iteration of `for (const [triggerId, trigger] of due)`, up to the
\* await of updateState('trigger_fired') when the trigger fires; or the end
\* of the loop.  outcomes[i] is what the i-th sub-condition computes.
MonitorCompNext(outcomes) ==
  /\ monitorPc = "compLoop"
  /\ IF evalQueue = <<>>
     THEN /\ evalNow' = 0
          /\ evalCandles' = FALSE
          /\ monitorPc' = "afterTechnical"
          /\ UNCHANGED <<activeTriggers, evalQueue, evalCur, obsMet, lastEval>>
     ELSE LET id == Head(evalQueue)
              trigger == activeTriggers[id]
              subResults ==
                [i \in DOMAIN trigger.subConditions |->
                   IF evalCandles
                   THEN _evaluateSubCondition(trigger.subConditions[i],
                                              outcomes[i])
                   ELSE [met |-> FALSE, value |-> Null]]
              \* the sub-conditions before the first exception are written
              thrower ==
                IF ~evalCandles THEN 0
                ELSE IF outcomes[1].kind = "throws" THEN 1
                ELSE IF outcomes[2].kind = "throws" THEN 2
                ELSE 0
              written ==
                [i \in DOMAIN trigger.subConditions |->
                   IF evalCandles /\ (thrower = 0 \/ i < thrower)
                   THEN [trigger.subConditions[i] EXCEPT
                           !.lastConditionMet = subResults[i].met,
                           !.lastValue = subResults[i].value]
                   ELSE trigger.subConditions[i]]
              checked == [activeTriggers EXCEPT
                            ![id].lastCheckTime = evalNow,
                            ![id].subConditions = written]
              compositeMet == CompositeMet(trigger.operator, subResults)
              wasMet == trigger.lastConditionMet
          IN  /\ evalQueue' = Tail(evalQueue)
              /\ UNCHANGED <<evalNow, evalCandles>>
              /\ IF id \notin DOMAIN activeTriggers
                 THEN /\ monitorPc' = "compLoop"
                      /\ UNCHANGED <<activeTriggers, evalCur, obsMet, lastEval>>
                 ELSE IF thrower # 0
                 THEN /\ activeTriggers' = checked
                      /\ monitorPc' = "compLoop"
                      /\ UNCHANGED <<evalCur, obsMet, lastEval>>
                 ELSE /\ obsMet' = [obsMet EXCEPT ![id] =
                                      IF compositeMet THEN "met" ELSE "notmet"]
                      /\ IF compositeMet /\ ~wasMet
                         THEN /\ activeTriggers' = checked
                              /\ evalCur' = [id |-> id, prev |-> obsMet[id],
                                             value |-> Null,
                                             met |-> compositeMet]
                              /\ monitorPc' = "compFire"
                              /\ UNCHANGED lastEval
                         ELSE /\ activeTriggers' =
                                   SetCompositeMet(checked, id, compositeMet)
                              /\ lastEval' = EdgeEval(id, "composite",
                                                      obsMet[id] = "met",
                                                      compositeMet, FALSE)
                              /\ monitorPc' = "compLoop"
                              /\ UNCHANGED evalCur
  /\ UNCHANGED <<runVars, triggerCallbacks, nextTriggerId, lastRegister, now,
                 triggerFiredThisLoop, loopNow, nextTechnicalEvalAt, sleepMs,
                 priceLocals, cbRunning, obsPrice, tick, restOfEngine,
                 lastInvoke>>

\* updateState('trigger_fired') has settled: the callback is looked up and,
\* when still registered, invoked.
MonitorCompInvoke ==
  /\ monitorPc = "compFire"
  /\ IF evalCur.id \in triggerCallbacks
     THEN /\ cbRunning' = [cbRunning EXCEPT ![evalCur.id] = @ + 1]
          /\ lastEval' = EdgeEval(evalCur.id, "composite", evalCur.prev = "met",
                                  evalCur.met, TRUE)
          /\ lastInvoke' = Invocation(evalCur.id, "composite")
          /\ monitorPc' = "compCallback"
          /\ UNCHANGED <<activeTriggers, evalCur>>
     ELSE /\ activeTriggers' = SetCompositeMet(activeTriggers, evalCur.id,
                                               evalCur.met)
          /\ lastEval' = EdgeEval(evalCur.id, "composite", evalCur.prev = "met",
                                  evalCur.met, FALSE)
          /\ evalCur' = NoCur
          /\ monitorPc' = "compLoop"
          /\ UNCHANGED <<cbRunning, lastInvoke>>
  /\ tick' = [tick EXCEPT !.fired = TRUE]
  /\ UNCHANGED <<runVars, triggerCallbacks, nextTriggerId, lastRegister, now,
                 triggerFiredThisLoop, loopNow, nextTechnicalEvalAt, sleepMs,
                 priceLocals, techLocals, obsPrice, obsMet, restOfEngine>>

\* await callback(...) resolves: trigger.lastConditionMet = compositeMet.
MonitorCompCallbackReturns ==
  /\ monitorPc = "compCallback"
  /\ cbRunning' = [cbRunning EXCEPT ![evalCur.id] = @ - 1]
  /\ activeTriggers' = SetCompositeMet(activeTriggers, evalCur.id, evalCur.met)
  /\ evalCur' = NoCur
  /\ monitorPc' = "compLoop"
  /\ UNCHANGED <<runVars, triggerCallbacks, nextTriggerId, lastRegister, now,
                 triggerFiredThisLoop, loopNow, nextTechnicalEvalAt, sleepMs,
                 priceLocals, techLocals, ghostVars, restOfEngine>>

\* await callback(...) rejects: the per-trigger catch logs it.
MonitorCompCallbackThrows ==
  /\ monitorPc = "compCallback"
  /\ cbRunning' = [cbRunning EXCEPT ![evalCur.id] = @ - 1]
  /\ evalCur' = NoCur
  /\ tick' = [tick EXCEPT !.threw = TRUE]
  /\ monitorPc' = "compLoop"
  /\ UNCHANGED <<runVars, triggerVars, now, triggerFiredThisLoop, loopNow,
                 nextTechnicalEvalAt, sleepMs, priceLocals, techLocals,
                 obsPrice, obsMet, lastEval, restOfEngine,
                 lastInvoke>>

\* Back in monitor(): nextTechnicalEvalAt = loopNow + TECHNICAL_EVAL_INTERVAL_MS
\* and the iteration ends with the adaptive sleep.
MonitorAfterTechnical ==
  /\ monitorPc = "afterTechnical"
  /\ nextTechnicalEvalAt' = loopNow + TECHNICAL_EVAL_INTERVAL_MS
  /\ sleepMs' = IF triggerFiredThisLoop THEN SleepAfterFireMs ELSE SleepIdleMs
  /\ loopNow' = 0
  /\ monitorPc' = "sleep"
  /\ UNCHANGED <<runVars, triggerVars, now, triggerFiredThisLoop,
                 priceLocals, techLocals, evalCur, cbRunning, ghostVars,
                 restOfEngine>>

\* The grain of the clock: long enough to open the 10 s gate of the
\* technical pass, shorter than the rate limit of one trigger.
ElapseStep == 3 * TECHNICAL_EVAL_INTERVAL_MS

\* Time passes while the loop sleeps between two iterations.
Elapse ==
  /\ monitorPc = "sleep"
  /\ now < MaxNowIntervals * TECHNICAL_EVAL_INTERVAL_MS
  /\ now' = now + ElapseStep
  /\ UNCHANGED <<runVars, triggerVars, monitorVars, cbRunning, ghostVars,
                 restOfEngine>>

\* The strategy sets up its triggers: registrations and removals up to the
\* start of the agent.
NextRegister ==
  \/ \E condition \in PriceConditions : registerPriceTrigger(condition)
  \/ \E condition \in TechnicalConditions : registerTechnicalTrigger(condition)
  \/ \E operator \in Operators, count \in 1..MaxSubConditions :
        registerCompositeTrigger(operator, SubConditionList(count))
  \/ \E triggerId \in TriggerIds : removeTrigger(triggerId)
  \/ StartAgent

SpecRegister == Init /\ [][NextRegister]_vars

\* The monitor loop with technical and composite triggers.  The mids are
\* not looked at by these triggers: the price pass runs on one price.
NextTech ==
  \/ \E condition \in TechnicalConditions : registerTechnicalTrigger(condition)
  \/ \E operator \in Operators, count \in 1..MaxSubConditions :
        registerCompositeTrigger(operator, SubConditionList(count))
  \/ StartAgent
  \/ MonitorStart
  \/ MonitorLoopTest
  \/ MonitorPriceMids(MaxPrice)
  \/ MonitorPriceNext
  \/ MonitorAfterPrice
  \/ MonitorTechBegin
  \/ \E enough \in BOOLEAN : MonitorTechCandles(enough)
  \/ \E outcome \in ComputeOutcomes : MonitorTechNext(outcome)
  \/ MonitorTechInvoke
  \/ MonitorTechCallbackReturns
  \/ MonitorTechCallbackThrows
  \/ MonitorCompBegin
  \/ \E enough \in BOOLEAN : MonitorCompCandles(enough)
  \/ \E outcomes \in [1..MaxSubConditions -> SubOutcomes] :
        MonitorCompNext(outcomes)
  \/ MonitorCompInvoke
  \/ MonitorCompCallbackReturns
  \/ MonitorCompCallbackThrows
  \/ MonitorAfterTechnical
  \/ MonitorWake
  \/ Elapse

SpecTech == Init /\ [][NextTech]_vars

(***************************************************************************)
(* HyperliquidWSManager: the subscription table and the outbound messages. *)
(***************************************************************************)
\* The composite keys of the model: a global channel each.
SubKeys == {"allMids", "liquidations"}
\* The callbacks callers register; the handler of an event trigger stands
\* under the id of its trigger.
WsCallbacks == 1 .. MaxTriggers
\* Math.random() of the reconnect jitter, in percent.
Randoms == {0, 99}

\* _buildSubMessage(channel, params), and the message of _unsubscribeByKey
SubscribeMsg(key) == [method |-> "subscribe", key |-> key]
UnsubscribeMsg(key) == [method |-> "unsubscribe", key |-> key]

\* this._subscriptions.get(key)
HasKey(subs, key) == \E i \in DOMAIN subs : subs[i].key = key
CallbacksOf(subs, key) ==
  IF HasKey(subs, key)
    THEN subs[CHOOSE i \in DOMAIN subs : subs[i].key = key].callbacks
  ELSE {}

\* this._subscriptions.delete(key)
WithoutKey(subs, key) ==
  SelectSeq(subs, LAMBDA entry : entry.key # key)

\* _subscribe(channel, params, callback): the table it leaves and the
\* message it hands to _send.
_subscribe(subs, key, callback) ==
  IF HasKey(subs, key)
    THEN [subs |-> [i \in DOMAIN subs |->
                      IF subs[i].key = key
                        THEN [subs[i] EXCEPT !.callbacks = @ \cup {callback}]
                      ELSE subs[i]],
          emitted |-> <<>>]
  ELSE [subs |-> Append(subs, [key |-> key, callbacks |-> {callback}]),
        emitted |-> <<SubscribeMsg(key)>>]

\* _unsubscribeByKey that leaves the key of an empty callback set
_unsubscribeByKeyKeepingKey(subs, key, callback) ==
  [subs |-> [i \in DOMAIN subs |->
               IF subs[i].key = key
                 THEN [subs[i] EXCEPT
                         !.callbacks = IF callback # Null THEN @ \ {callback}
                                       ELSE {}]
               ELSE subs[i]],
   emitted |-> <<>>]

\* _unsubscribeByKey(key, callback); callback Null when it is omitted.
_unsubscribeByKey(subs, key, callback) ==
  LET remaining == IF callback # Null
                     THEN CallbacksOf(subs, key) \ {callback}
                   ELSE {}
  IN IF ~HasKey(subs, key) THEN [subs |-> subs, emitted |-> <<>>]
     ELSE IF remaining = {}
       THEN [subs |-> WithoutKey(subs, key),
             emitted |-> <<UnsubscribeMsg(key)>>]
     ELSE [subs |-> [i \in DOMAIN subs |->
                       IF subs[i].key = key
                         THEN [subs[i] EXCEPT !.callbacks = remaining]
                       ELSE subs[i]],
           emitted |-> <<>>]

\* The messages _resubscribeAll hands to _send: one per entry of the Map,
\* in its order.
_resubscribeAll(subs) == [i \in DOMAIN subs |-> SubscribeMsg(subs[i].key)]

\* a flush that loses the oldest message of the queue
FlushedButOldest(queue) == IF queue = <<>> THEN queue ELSE Tail(queue)

\* The messages the flush loop of the 'open' handler sends: shift() takes
\* them from the head of the queue until it is empty.
Flushed(queue) == queue

\* _send(msg) for the messages of one handler: sent when the connection is
\* open, else pushed on the pending queue.
_send(emitted) ==
  /\ IF isConnected /\ wsSocket = "open" THEN TRUE
     ELSE Len(pendingQueue) + Len(emitted) <= MaxQueue
  /\ pendingQueue' = IF isConnected /\ wsSocket = "open" THEN pendingQueue
                     ELSE pendingQueue \o emitted

\* subscribe*(callback) of the manager, for the key of its channel.
Subscribe(key, callback) ==
  LET done == _subscribe(_subscriptions, key, callback)
  IN /\ _send(done.emitted)
     /\ _subscriptions' = done.subs
     /\ wsLast' = [NoWsOp EXCEPT
                     !.op = "subscribe", !.key = key,
                     !.callback = callback,
                     !.had = HasKey(_subscriptions, key),
                     !.callbacks = CallbacksOf(_subscriptions, key),
                     !.emitted = done.emitted,
                     !.sent = IF isConnected /\ wsSocket = "open"
                                THEN done.emitted ELSE <<>>,
                     !.queuedBefore = pendingQueue]

\* close(): no reconnect from now on; the timer is cleared, the socket
\* closed and let go of, the table and the queue emptied.
close ==
  /\ _intentionalClose' = TRUE
  /\ _reconnectTimer' = FALSE
  /\ wsClosing' = (wsClosing \/ wsSocket \in {"connecting", "open"})
  /\ wsSocket' = "none"
  /\ isConnected' = FALSE
  /\ _subscriptions' = <<>>
  /\ pendingQueue' = <<>>
  /\ wsLast' = [NoWsOp EXCEPT !.op = "close", !.queuedBefore = pendingQueue]
  /\ UNCHANGED <<_reconnectAttempts, _isFirstConnection, _onFatalError,
                 reconnectDelays>>

(***************************************************************************)
(* Scheduled and event triggers.                                           *)
(***************************************************************************)
\* registerScheduledTrigger(intervalMs, callback): setInterval starts at once.
registerScheduledTrigger ==
  /\ currentState = "initializing"
  /\ nextTriggerId <= MaxTriggers
  /\ intervalIds' = intervalIds \cup {nextTriggerId}
  /\ activeTriggers' = [id \in DOMAIN activeTriggers \cup {nextTriggerId} |->
        IF id = nextTriggerId THEN [type |-> "scheduled"]
        ELSE activeTriggers[id]]
  /\ triggerCallbacks' = triggerCallbacks \cup {nextTriggerId}
  /\ nextTriggerId' = nextTriggerId + 1
  /\ UNCHANGED lastRegister
  /\ UNCHANGED <<runVars, now, monitorVars, cbRunning, ghostVars,
                 _shutdownInProgress, shutdownPc, shutdownCalls, wsVars,
                 safetyVars,
                 execVars>>

\* registerEventTrigger('liquidation', condition, callback): the handler
\* closure goes into the subscription table of the websocket manager.
registerEventTrigger ==
  /\ currentState = "initializing"
  /\ nextTriggerId <= MaxTriggers
  /\ Subscribe("liquidations", nextTriggerId)
  /\ activeTriggers' = [id \in DOMAIN activeTriggers \cup {nextTriggerId} |->
        IF id = nextTriggerId THEN [type |-> "event"]
        ELSE activeTriggers[id]]
  /\ triggerCallbacks' = triggerCallbacks \cup {nextTriggerId}
  /\ nextTriggerId' = nextTriggerId + 1
  /\ UNCHANGED lastRegister
  /\ UNCHANGED <<runVars, now, monitorVars, cbRunning, ghostVars, lifeVars,
                 wsSocket, isConnected, _intentionalClose, _reconnectTimer,
                 _reconnectAttempts, wsClosing, _isFirstConnection,
                 _onFatalError, reconnectDelays, safetyVars, execVars>>

\* The setInterval callback of a scheduled trigger: when the agent runs and
\* is not paused, it starts the strategy callback and awaits it.
ScheduledTimerFires(triggerId) ==
  /\ triggerId \in intervalIds
  /\ cbRunning[triggerId] < MaxConcurrent
  /\ IF isRunning /\ ~isPaused
     THEN /\ cbRunning' = [cbRunning EXCEPT ![triggerId] = @ + 1]
          /\ lastInvoke' = Invocation(triggerId, "scheduled")
     ELSE UNCHANGED <<cbRunning, lastInvoke>>
  /\ UNCHANGED <<runVars, triggerVars, now, monitorVars, obsPrice, obsMet,
                 lastEval, tick, restOfEngine>>

\* The handler of an event trigger gets a message whose event satisfies
\* _checkEventCondition: it starts the strategy callback and awaits it.  The
\* websocket manager does not await its handlers.
EventHandlerRuns(triggerId) ==
  /\ wsSocket = "open"
  /\ triggerId \in CallbacksOf(_subscriptions, "liquidations")
  /\ cbRunning[triggerId] < MaxConcurrent
  /\ cbRunning' = [cbRunning EXCEPT ![triggerId] = @ + 1]
  /\ lastInvoke' = Invocation(triggerId, "event")
  /\ UNCHANGED <<runVars, triggerVars, now, monitorVars, obsPrice, obsMet,
                 lastEval, tick, restOfEngine>>

\* A callback started by a timer or by a message settles (resolves, or
\* rejects into the handler's catch).
CallbackSettles(triggerId) ==
  /\ cbRunning[triggerId] > 0
  /\ evalCur.id # triggerId
  /\ cbRunning' = [cbRunning EXCEPT ![triggerId] = @ - 1]
  /\ UNCHANGED <<runVars, triggerVars, now, monitorVars, ghostVars,
                 restOfEngine>>

(***************************************************************************)
(* pause(), resume(), shutdown()                                           *)
(***************************************************************************)
pause ==
  /\ IF ~isRunning
     THEN UNCHANGED <<isPaused, currentState>>
     ELSE /\ isPaused' = TRUE
          /\ currentState' = "paused"
  /\ UNCHANGED <<isRunning, triggerVars, now, monitorVars, cbRunning,
                 ghostVars, restOfEngine>>

resume ==
  /\ IF ~isPaused
     THEN UNCHANGED <<isPaused, currentState>>
     ELSE /\ isPaused' = FALSE
          /\ currentState' = "running"
  /\ UNCHANGED <<isRunning, triggerVars, now, monitorVars, cbRunning,
                 ghostVars, restOfEngine>>

\* shutdown(): a call during a shutdown gets the promise of the one in
\* progress, a call on an agent that is not running returns; otherwise
\* _executeShutdown() starts and awaits updateState('lifecycle').
ShutdownUnderWayUnseen == FALSE

\* if (this._shutdownInProgress) return this._shutdownPromise;
ShutdownUnderWay == _shutdownInProgress

shutdown ==
  /\ IF ShutdownUnderWay
     THEN /\ shutdownCalls' = [shutdownCalls EXCEPT !.joined = TRUE]
          /\ UNCHANGED <<_shutdownInProgress, shutdownPc>>
     ELSE IF ~isRunning
     THEN UNCHANGED <<_shutdownInProgress, shutdownPc, shutdownCalls>>
     ELSE /\ _shutdownInProgress' = TRUE
          /\ shutdownPc' = "starting"
          /\ shutdownCalls' = [shutdownCalls EXCEPT !.runs = @ + 1]
  /\ UNCHANGED <<runVars, triggerVars, now, monitorVars, cbRunning,
                 ghostVars, intervalIds, wsVars, safetyVars, execVars>>

\* this.isRunning = false, then the 2 s wait for the monitor loop.
ShutdownStopLoop ==
  /\ shutdownPc = "starting"
  /\ isRunning' = FALSE
  /\ shutdownPc' = "waiting"
  /\ UNCHANGED <<currentState, isPaused, triggerVars, now, monitorVars,
                 cbRunning, ghostVars, _shutdownInProgress, shutdownCalls,
                 intervalIds,
                 wsVars, safetyVars, execVars>>

\* The wait is over: clearInterval for every scheduled trigger in the Map,
\* then the awaits of the order cancellations and position closes begin.
ShutdownClearTimers ==
  /\ shutdownPc = "waiting"
  /\ intervalIds' = intervalIds \ {id \in DOMAIN activeTriggers :
                                     activeTriggers[id].type = "scheduled"}
  /\ shutdownPc' = "closing"
  /\ UNCHANGED <<runVars, triggerVars, now, monitorVars, cbRunning,
                 ghostVars, _shutdownInProgress, shutdownCalls, wsVars,
                 safetyVars,
                 execVars>>

\* Orders are cancelled, positions closed and reconciled (errors caught per
\* coin), then this.wsManager.close(); the final account snapshot is awaited.
ShutdownCloseWs ==
  /\ shutdownPc = "closing"
  /\ close
  /\ shutdownPc' = "final"
  /\ UNCHANGED <<runVars, triggerVars, now, monitorVars, cbRunning,
                 ghostVars, _shutdownInProgress, shutdownCalls, intervalIds,
                 safetyVars,
                 execVars>>

\* The final evaluation is stored and the state set to 'stopped', or one of
\* its queries throws and shutdown rejects; finally the flag is cleared.
ShutdownFinish(ok) ==
  /\ shutdownPc = "final"
  /\ currentState' = IF ok THEN "stopped" ELSE currentState
  /\ shutdownPc' = IF ok THEN "done" ELSE "failed"
  /\ _shutdownInProgress' = FALSE
  /\ shutdownCalls' = [shutdownCalls EXCEPT !.joined = FALSE]
  /\ UNCHANGED <<isRunning, isPaused, triggerVars, now, monitorVars,
                 cbRunning, ghostVars, intervalIds, wsVars, safetyVars,
                 execVars>>

(***************************************************************************)
(* HyperliquidWSManager: the connection.                                   *)
(***************************************************************************)
\* what the websocket manager does not touch
wsRest == <<runVars, triggerVars, now, monitorVars, cbRunning, ghostVars,
            lifeVars, safetyVars, execVars>>

\* ws.on('open'): the backoff is reset, the pending queue flushed, and on a
\* connection after the first every entry of the table resubscribed.
WsOpen ==
  LET flushed == Flushed(pendingQueue)
      again == IF _isFirstConnection THEN <<>>
               ELSE _resubscribeAll(_subscriptions)
  IN /\ wsSocket = "connecting"
     /\ wsSocket' = "open"
     /\ isConnected' = TRUE
     /\ _reconnectAttempts' = 0
     /\ pendingQueue' = <<>>
     /\ _isFirstConnection' = FALSE
     /\ wsLast' = [NoWsOp EXCEPT
                     !.op = IF _isFirstConnection THEN "open" ELSE "reopen",
                     !.emitted = again,
                     !.sent = flushed \o again,
                     !.queuedBefore = pendingQueue]
     /\ reconnectDelays' = <<>>
     /\ UNCHANGED <<_intentionalClose, _reconnectTimer, _subscriptions,
                    wsClosing, _onFatalError, wsRest>>

\* a 'close' handler that reconnects after close() too
ClosedOnPurposeIgnored == FALSE

\* if (this._intentionalClose) return
ClosedOnPurpose == _intentionalClose

\* a 'close' handler without the cap of attempts
ExhaustedNever(attempts) == FALSE

\* this._reconnectAttempts > this._maxReconnectAttempts
Exhausted(attempts) == attempts > _maxReconnectAttempts

\* The delay of the reconnect after the given number of attempts, random
\* being Math.random() in percent: the capped exponential plus up to 20% of
\* it, rounded.
ReconnectDelay(attempts, random) ==
  LET raw == WS_RECONNECT_BASE_MS * (2 ^ (attempts - 1))
      exp == IF raw < WS_RECONNECT_MAX_MS THEN raw ELSE WS_RECONNECT_MAX_MS
  IN exp + (exp * 20 * random + 5000) \div 10000

\* The body of ws.on('close'): no reconnect after close(); past the cap of
\* attempts the fatal-error callback is called; else connect() is scheduled.
OnSocketClose(random) ==
  /\ isConnected' = FALSE
  /\ IF ClosedOnPurpose
     THEN /\ wsLast' = [NoWsOp EXCEPT !.op = "socket_closed"]
          /\ UNCHANGED <<_reconnectAttempts, _reconnectTimer, reconnectDelays>>
     ELSE /\ _reconnectAttempts' = _reconnectAttempts + 1
          /\ IF Exhausted(_reconnectAttempts')
             THEN /\ wsLast' = [NoWsOp EXCEPT !.op = "socket_closed",
                                              !.fatal = _onFatalError]
                  /\ UNCHANGED <<_reconnectTimer, reconnectDelays>>
             ELSE /\ wsLast' = [NoWsOp EXCEPT !.op = "socket_closed"]
                  /\ _reconnectTimer' = TRUE
                  /\ reconnectDelays' =
                       Append(reconnectDelays,
                              ReconnectDelay(_reconnectAttempts', random))

\* The socket in use closes: the connection drops or cannot be made.
WsSocketClosed(random) ==
  /\ wsSocket \in {"connecting", "open"}
  /\ wsSocket' = "closed"
  /\ OnSocketClose(random)
  /\ UNCHANGED <<_intentionalClose, _subscriptions, wsClosing, pendingQueue,
                 _isFirstConnection, _onFatalError, wsRest>>

\* A socket that close() has let go of reports closed.
WsReleasedSocketClosed ==
  /\ wsClosing
  /\ wsClosing' = FALSE
  /\ OnSocketClose(0)
  /\ UNCHANGED <<wsSocket, _intentionalClose, _subscriptions, pendingQueue,
                 _isFirstConnection, _onFatalError, wsRest>>

\* The reconnect timer fires: connect().
WsReconnectTimerFires ==
  /\ _reconnectTimer
  /\ _reconnectTimer' = FALSE
  /\ wsSocket' = IF _intentionalClose THEN wsSocket ELSE "connecting"
  /\ UNCHANGED <<isConnected, _intentionalClose, _reconnectAttempts,
                 _subscriptions, wsClosing, pendingQueue, _isFirstConnection,
                 _onFatalError, wsLast, reconnectDelays, wsRest>>

\* onFatalError(callback)
onFatalError ==
  /\ ~_onFatalError
  /\ _onFatalError' = TRUE
  /\ wsLast' = [NoWsOp EXCEPT !.op = "onFatalError"]
  /\ UNCHANGED <<wsSocket, isConnected, _intentionalClose, _reconnectTimer,
                 _reconnectAttempts, _subscriptions, wsClosing, pendingQueue,
                 _isFirstConnection, reconnectDelays, wsRest>>

\* A caller of the manager closes it.
WsClose ==
  /\ ~_intentionalClose
  /\ close
  /\ UNCHANGED wsRest

\* A caller subscribes a callback to a channel.
WsSubscribe(key, callback) ==
  /\ Subscribe(key, callback)
  /\ UNCHANGED <<wsSocket, isConnected, _intentionalClose, _reconnectTimer,
                 _reconnectAttempts, wsClosing, _isFirstConnection,
                 _onFatalError, reconnectDelays, wsRest>>

\* A caller unsubscribes one callback of a key, or all of them (Null).
WsUnsubscribe(key, callback) ==
  LET done == _unsubscribeByKey(_subscriptions, key, callback)
  IN /\ _send(done.emitted)
     /\ _subscriptions' = done.subs
     /\ wsLast' = [NoWsOp EXCEPT
                     !.op = "unsubscribe", !.key = key,
                     !.callback = callback,
                     !.had = HasKey(_subscriptions, key),
                     !.callbacks = CallbacksOf(_subscriptions, key),
                     !.emitted = done.emitted,
                     !.sent = IF isConnected /\ wsSocket = "open"
                                THEN done.emitted ELSE <<>>,
                     !.queuedBefore = pendingQueue]
     /\ UNCHANGED <<wsSocket, isConnected, _intentionalClose, _reconnectTimer,
                    _reconnectAttempts, wsClosing, _isFirstConnection,
                    _onFatalError, reconnectDelays, wsRest>>

(***************************************************************************)
(* HyperliquidWSManager: the dispatch of inbound messages.                 *)
(***************************************************************************)
\* The address the agent constructs its manager with.
Address == "0xagent"
\* The params of a subscription: none, or one name and its value.
NoParams == [name |-> "", value |-> ""]

\* _makeKey(channel, params): the channel alone without params, else the
\* channel, a colon and name=value.
_makeKey(channel, params) ==
  IF params = NoParams THEN channel
  ELSE channel \o ":" \o params.name \o "=" \o params.value

\* The keys the subscribe methods of the manager make: subscribeAllMids,
\* subscribeLiquidations, subscribeTrades(coin), subscribeUserEvents.
MessageKeys ==
  {_makeKey("allMids", NoParams), _makeKey("liquidations", NoParams),
   _makeKey("trades", [name |-> "coin", value |-> "BTC"]),
   _makeKey("userEvents", [name |-> "user", value |-> Address])}

\* Parsed inbound messages: the channel ("" when the message has none) and
\* data.coin ("" when the data has none).
Messages ==
  {[channel |-> channel, coin |-> coin] :
     channel \in {"", "liquidations", "trades", "user", "l2Book"},
     coin \in {"", "BTC"}}

\* what _handleMessage does with a message that matches no key
Dropped == [key |-> "none", called |-> {}, raised |-> FALSE]

\* `for (const cb of sub.callbacks) try { cb(msg.data) } catch ...`: every
\* callback of the key is called, and what one of them throws (the
\* callbacks in `throwing`) is logged.
Delivered(subs, key, throwing) ==
  [key |-> key, called |-> CallbacksOf(subs, key), raised |-> FALSE]

\* a dispatch that knows the exact and the channel-only key only
_handleMessageWithoutUserKey(subs, msg, throwing) ==
  LET exactKey == _makeKey(msg.channel, [name |-> "coin", value |-> msg.coin])
  IN IF msg.channel = "" THEN Dropped
     ELSE IF msg.coin # "" /\ HasKey(subs, exactKey)
       THEN Delivered(subs, exactKey, throwing)
     ELSE IF HasKey(subs, msg.channel)
       THEN Delivered(subs, msg.channel, throwing)
     ELSE Dropped

\* _handleMessage(msg): the key whose callbacks get msg.data, the callbacks
\* called, and whether the call raised.
_handleMessage(subs, msg, throwing) ==
  LET exactKey == _makeKey(msg.channel, [name |-> "coin", value |-> msg.coin])
      globalKey == _makeKey(msg.channel, NoParams)
      userKey == _makeKey("userEvents", [name |-> "user", value |-> Address])
  IN IF msg.channel = "" THEN Dropped
     ELSE IF msg.coin # "" /\ HasKey(subs, exactKey)
       THEN Delivered(subs, exactKey, throwing)
     ELSE IF HasKey(subs, globalKey)
       THEN Delivered(subs, globalKey, throwing)
     ELSE IF msg.channel = "user" /\ HasKey(subs, userKey)
       THEN Delivered(subs, userKey, throwing)
     ELSE Dropped

\* ws.on('message'): the parsed message goes to _handleMessage.
WsMessage(msg, throwing) ==
  LET done == _handleMessage(_subscriptions, msg, throwing)
  IN /\ wsSocket = "open"
     /\ wsLast' = [NoWsOp EXCEPT !.op = "message", !.key = done.key,
                                 !.msg = msg, !.called = done.called,
                                 !.raised = done.raised,
                                 !.subsBefore = _subscriptions]
     /\ UNCHANGED <<wsSocket, isConnected, _intentionalClose, _reconnectTimer,
                    _reconnectAttempts, _subscriptions, wsClosing,
                    pendingQueue, _isFirstConnection, _onFatalError,
                    reconnectDelays, wsRest>>

\* Inbound messages over a table of subscriptions.
NextMessages ==
  \/ WsOpen
  \/ \E key \in MessageKeys, callback \in WsCallbacks :
        WsSubscribe(key, callback)
  \/ \E key \in MessageKeys : WsUnsubscribe(key, Null)
  \/ \E msg \in Messages, throwing \in {{}, WsCallbacks} :
        WsMessage(msg, throwing)

SpecMessages == Init /\ [][NextMessages]_vars

\* The connection of the manager: drops, reconnects with backoff, the cap
\* of attempts and close().
NextReconnect ==
  \/ WsOpen
  \/ \E random \in Randoms : WsSocketClosed(random)
  \/ WsReleasedSocketClosed
  \/ WsReconnectTimerFires
  \/ onFatalError
  \/ WsClose

SpecReconnect == Init /\ [][NextReconnect]_vars

\* The subscriptions of the manager over a connection that drops and
\* reconnects.
NextSubscriptions ==
  \/ WsOpen
  \/ WsSocketClosed(0)
  \/ WsReleasedSocketClosed
  \/ WsReconnectTimerFires
  \/ WsClose
  \/ \E key \in SubKeys, callback \in WsCallbacks : WsSubscribe(key, callback)
  \/ \E key \in SubKeys, callback \in WsCallbacks \cup {Null} :
        WsUnsubscribe(key, callback)

SpecSubscriptions == Init /\ [][NextSubscriptions]_vars

\* The life cycle of the agent: polled, scheduled and event triggers, pause,
\* resume, shutdown and the websocket connection.  The price pass runs on
\* one price, with callbacks that return.
NextLife ==
  \/ registerPriceTrigger([above |-> Threshold, below |-> Null, crosses |-> Null])
  \/ registerScheduledTrigger
  \/ registerEventTrigger
  \/ \E triggerId \in TriggerIds : removeTrigger(triggerId)
  \/ StartAgent
  \/ MonitorStart
  \/ MonitorLoopTest
  \/ MonitorPriceMids(MaxPrice)
  \/ MonitorPriceNext
  \/ MonitorPriceInvoke
  \/ MonitorPriceCallbackReturns
  \/ MonitorAfterPrice
  \/ MonitorWake
  \/ \E triggerId \in TriggerIds : ScheduledTimerFires(triggerId)
  \/ \E triggerId \in TriggerIds : EventHandlerRuns(triggerId)
  \/ \E triggerId \in TriggerIds : CallbackSettles(triggerId)
  \/ pause
  \/ resume
  \/ shutdown
  \/ ShutdownStopLoop
  \/ ShutdownClearTimers
  \/ ShutdownCloseWs
  \/ \E ok \in BOOLEAN : ShutdownFinish(ok)
  \/ WsOpen

SpecLife == Init /\ [][NextLife]_vars

\* Shutdown of a running agent with its monitor loop, its scheduled timers
\* and a websocket connection that drops and reconnects.
NextShutdown ==
  \/ registerPriceTrigger([above |-> Threshold, below |-> Null, crosses |-> Null])
  \/ registerScheduledTrigger
  \/ StartAgent
  \/ MonitorStart
  \/ MonitorLoopTest
  \/ MonitorPriceMids(MaxPrice)
  \/ MonitorPriceNext
  \/ MonitorPriceInvoke
  \/ MonitorPriceCallbackReturns
  \/ MonitorAfterPrice
  \/ MonitorWake
  \/ \E triggerId \in TriggerIds : ScheduledTimerFires(triggerId)
  \/ \E triggerId \in TriggerIds : CallbackSettles(triggerId)
  \/ shutdown
  \/ ShutdownStopLoop
  \/ ShutdownClearTimers
  \/ ShutdownCloseWs
  \/ \E ok \in BOOLEAN : ShutdownFinish(ok)
  \/ WsOpen
  \/ WsSocketClosed(0)
  \/ WsReleasedSocketClosed
  \/ WsReconnectTimerFires

SpecShutdown == Init /\ [][NextShutdown]_vars

(***************************************************************************)
(* The daily-loss accumulator: logTrade(), _handleSlTpFill(),              *)
(* _handleLiquidation() and checkSafetyLimits().                           *)
(***************************************************************************)
engineNoClock == <<runVars, triggerVars, monitorVars, cbRunning, ghostVars,
                   lifeVars, wsVars>>
engineVars == <<engineNoClock, now>>

Days == 1..MaxDay
\* The configured limit: config.dailyLossLimit is not given.
dailyLossLimit == DEFAULT_DAILY_LOSS_LIMIT
\* Net pnl of a closing trade: a small win, a small loss (within the limit)
\* and a large loss (beyond it).
PnlValues == {PnlStep, 0 - PnlStep, 0 - 2 * PnlStep}

\* rows.reduce((s, t) => s + toFiniteNumber(t.pnl, 0), 0) over the rows of a date
RECURSIVE SumPnl(_, _)
SumPnl(rows, date) ==
  IF rows = <<>> THEN 0
  ELSE (IF Head(rows).date = date THEN Head(rows).pnl ELSE 0)
       + SumPnl(Tail(rows), date)

\* supabase.from('agent_trades').insert(tradeRecord): the row is stored, or
\* the call returns an error that is only printed.
InsertTrade(pnl, stored) ==
  IF stored THEN Append(agentTrades, [date |-> today, pnl |-> pnl])
  ELSE agentTrades

\* logTrade(tradeData): an entry (pnl 0) or a strategy-initiated exit.
logTrade(pnl, stored) ==
  /\ Len(realized) < MaxTrades
  /\ agentTrades' = InsertTrade(pnl, stored)
  /\ IF pnl # 0
       THEN /\ _dailyPnlDate' = today
            /\ _dailyPnl' = (IF today # _dailyPnlDate THEN 0 ELSE _dailyPnl) + pnl
       ELSE UNCHANGED <<_dailyPnl, _dailyPnlDate>>
  /\ realized' = Append(realized, [date |-> today, pnl |-> pnl])
  /\ UNCHANGED <<today, lastSafetyCheck, engineVars, execVars>>

\* OrderOwnershipStore.markByCloid(cloid, status): the status of an entry
\* the store has is set, whatever it was.
markByCloid(store, cloid, status) ==
  IF cloid \notin DOMAIN store \/ store[cloid] = NoEntry THEN store
  ELSE [store EXCEPT ![cloid].status = status]

markByOrderId(store, orderId, status) ==
  IF orderId = Null THEN store
  ELSE LET found == {c \in DOMAIN store : store[c].orderId = orderId}
       IN IF found = {} THEN store
          ELSE markByCloid(store, CHOOSE c \in found : TRUE, status)

\* _handleSlTpFill(fillData): a stop-loss, take-profit or trailing-stop order
\* of the agent was filled by the venue.  The trade is inserted, then the
\* order is marked filled in the ownership store, by its id and by its
\* cloid when the fill carries one.
_handleSlTpFill(pnl, stored, orderId, cloid) ==
  /\ Len(realized) < MaxTrades
  /\ agentTrades' = InsertTrade(pnl, stored)
  /\ realized' = Append(realized, [date |-> today, pnl |-> pnl])
  /\ orders' = IF agentId = Null THEN orders
               ELSE LET byId == markByOrderId(orders, orderId, "filled")
                    IN IF cloid # Null THEN markByCloid(byId, cloid, "filled")
                       ELSE byId
  /\ UNCHANGED <<_dailyPnl, _dailyPnlDate, today, lastSafetyCheck, engineVars,
                 _clearinghouseCache, _clearinghouseCacheTime, venueBalance,
                 cacheStale, execCall, lastRead, agentId, nextCloid,
                 lastPlaced, sweepRequests, queryVars, utilsVars>>

\* _handleLiquidation(fillData): the venue liquidated the agent's position.
_handleLiquidation(pnl, stored) ==
  /\ Len(realized) < MaxTrades
  /\ agentTrades' = InsertTrade(pnl, stored)
  /\ _dailyPnl' = _dailyPnl + pnl
  /\ realized' = Append(realized, [date |-> today, pnl |-> pnl])
  /\ UNCHANGED <<_dailyPnlDate, today, lastSafetyCheck, engineVars, execVars>>

\* Midnight (UTC) passes.
DayRolls ==
  /\ today < MaxDay
  /\ today' = today + 1
  /\ UNCHANGED <<_dailyPnl, _dailyPnlDate, agentTrades, realized,
                 lastSafetyCheck, engineVars, execVars>>

\* checkSafetyLimits(coin, proposedSize); queryOk: the reconciliation query
\* of a date change returned rows.
checkSafetyLimits(queryOk) ==
  LET reseeded == IF queryOk THEN SumPnl(agentTrades, today) ELSE 0
      dailyPnl == IF today # _dailyPnlDate THEN reseeded ELSE _dailyPnl
  IN /\ _dailyPnlDate' = today
     /\ _dailyPnl' = dailyPnl
     /\ lastSafetyCheck' = [called |-> TRUE,
                            allowed |-> ~(dailyPnl < 0 - dailyLossLimit),
                            realizedToday |-> SumPnl(realized, today)]
     /\ UNCHANGED <<today, agentTrades, realized, engineVars, execVars>>

NextSafety ==
  \/ \E pnl \in PnlValues \cup {0}, stored \in BOOLEAN : logTrade(pnl, stored)
  \/ \E pnl \in PnlValues, stored \in BOOLEAN :
        _handleSlTpFill(pnl, stored, 1, Null)
  \/ \E pnl \in PnlValues, stored \in BOOLEAN : _handleLiquidation(pnl, stored)
  \/ DayRolls
  \/ \E queryOk \in BOOLEAN : checkSafetyLimits(queryOk)

SpecSafety == Init /\ [][NextSafety]_vars

(***************************************************************************)
(* The order executor: the clearinghouse-state cache.                      *)
(***************************************************************************)
\* Withdrawable balances of the account, in cents.
Balances == {usd * 100 : usd \in 0..MaxBalanceUsd}
\* Order sizes a caller passes, in lots of 10^-szDecimals coins: none, a
\* moderate and a large one.
Lots == {0, MaxLots \div 2, MaxLots}
\* Mid prices of the coin in thousands of USD; 0: the coin is not in the mids.
MidPricesK == {0, 25, 30}
\* The leverage _ensureLeverageBeforeOrder() returns for the coin.
Leverages == {10, 25}
\* An exchange request of the SDK resolves with the venue's answer, or rejects
\* (network error, timeout) and the caller's catch block runs.
VenueOutcomes == {"resolved", "rejected"}

CacheNow ==
  [state |-> _clearinghouseCache, time |-> _clearinghouseCacheTime,
   stale |-> cacheStale]

SetCache(cache) ==
  /\ _clearinghouseCache' = cache.state
  /\ _clearinghouseCacheTime' = cache.time
  /\ cacheStale' = cache.stale

\* The test of getClearinghouseState(): a cached state younger than the TTL.
CacheFresh ==
  /\ _clearinghouseCache # NoState
  /\ (now - _clearinghouseCacheTime) < CLEARINGHOUSE_CACHE_TTL_MS

\* The cache after getClearinghouseState(); its state is the value returned.
CacheAfterRead ==
  IF CacheFresh THEN CacheNow
  ELSE [state |-> venueBalance, time |-> now, stale |-> FALSE]

invalidateClearinghouseCache ==
  [state |-> NoState, time |-> 0, stale |-> FALSE]

\* The cache after an exchange request made with `cache` in place: a handler
\* that invalidates does so on the line after the awaited request, which a
\* rejected request skips.
AfterVenueRequest(cache, outcome, invalidates) ==
  IF outcome = "rejected" THEN cache
  ELSE IF invalidates THEN invalidateClearinghouseCache
  ELSE [cache EXCEPT !.stale = (cache.state # NoState)]

\* getClearinghouseState() called for a caller outside the executor
\* (getPositions, getAvailableBalance, getAccountValue).
getClearinghouseState ==
  /\ SetCache(CacheAfterRead)
  /\ lastRead' = [served |-> IF CacheFresh THEN "cache" ELSE "venue",
                  stale |-> CacheFresh /\ cacheStale]
  /\ UNCHANGED <<venueBalance, execCall, ledgerVars, queryVars,
                 utilsVars, engineVars, safetyVars>>

\* The account changes at the venue: a fill, funding, a transfer.
VenueAccountChanges(balance) ==
  /\ balance # venueBalance
  /\ venueBalance' = balance
  /\ UNCHANGED <<_clearinghouseCache, _clearinghouseCacheTime, cacheStale,
                 execCall, lastRead, ledgerVars, queryVars,
                 utilsVars, engineVars, safetyVars>>

\* Date.now() advances by half the lifetime of a cached state.
CacheTimePasses ==
  /\ now < TECHNICAL_TRIGGER_RATE_LIMIT_MS
             + MaxCacheLifetimes * CLEARINGHOUSE_CACHE_TTL_MS
  /\ now' = now + (CLEARINGHOUSE_CACHE_TTL_MS \div 2)
  /\ UNCHANGED <<engineNoClock, safetyVars, execVars>>

(***************************************************************************)
(* The order executor: placements and cancellations.                       *)
(***************************************************************************)
\* Sizes are in lots of 10^-4 coins (szDecimals 4), prices in thousands of
\* USD and balances in cents, so that
\*   balance / (1 / lev + takerFeeRate) / midPrice          (in lots)
\*     = MaxSizeNum(balance, lev) / MaxSizeDen(lev, midK)
\* with the factor (1/100) / 1000 * 10^4 = 1/10 of the units folded in.
MaxSizeNum(balance, lev) == balance * lev * (FeeScale \div 10)
MaxSizeDen(lev, midK) == (FeeScale + takerFeeRate * lev) * midK

\* Number.prototype.toFixed on a non-negative quotient: round to nearest.
toFixed(num, den) == (2 * num + den) \div (2 * den)

Min(a, b) == IF a < b THEN a ELSE b

\* maxSize of placeMarketOrder
MaxSize(balance, lev, midK) ==
  toFixed(MaxSizeNum(balance, lev), MaxSizeDen(lev, midK))

\* requiredMargin > availableBalance, for positionValue = size * midPrice:
\* (positionValue / lev) + positionValue * takerFeeRate > availableBalance
RequiredMarginExceeds(size, balance, lev, midK) ==
  size * MaxSizeDen(lev, midK) > MaxSizeNum(balance, lev)

(***************************************************************************)
(* The ownership store of the executor (OrderOwnershipStore).              *)
(***************************************************************************)
\* Correlation ids (cloids) the executor generates: the random half of a
\* cloid is fresh on every call, which the model renders as a counter.
Cloids == 1 .. MaxOrders
\* The order id the venue gives the order placed under `cloid`, and the ids of
\* the orders other actors have open on the same account.
VenueOid(cloid) == 2 * cloid - 1
AgentOrderIds == {VenueOid(cloid) : cloid \in Cloids}
OtherOrderIds == {2 * n : n \in 1 .. MaxOrders}
\* statuses[0] of the venue's reply to a placement
ReplyKinds == {"resting", "filled", "error"}
\* The venue's answer to a cancel request: done, an error naming a terminal
\* state ("already canceled", "filled", "not found"), or any other failure
\* (another error text, or the request rejecting).
CancelAnswers == {"ok", "gone", "failed"}

_generateCloid == IF agentId = Null THEN Null ELSE nextCloid

_parseOrderResult(kind, cloid) ==
  [success |-> kind \in {"resting", "filled"},
   orderId |-> IF kind \in {"resting", "filled"} THEN VenueOid(cloid) ELSE Null,
   status |-> IF kind = "resting" THEN "open"
              ELSE IF kind = "filled" THEN "filled" ELSE "none"]

registerOrder(store, cloid, orderId, status) ==
  IF cloid = Null THEN store
  ELSE [store EXCEPT ![cloid] =
          [orderId |-> IF orderId # Null THEN orderId ELSE store[cloid].orderId,
           status |-> status]]

\* _recordOwnedOrder without its test of result.success
_recordOwnedOrderWhateverTheResult(store, result, cloid) ==
  IF agentId = Null \/ cloid = Null THEN store
  ELSE registerOrder(store, cloid, result.orderId,
                     IF result.status # "none" THEN result.status
                     ELSE "submitted")

_recordOwnedOrder(store, result, cloid) ==
  IF agentId = Null \/ cloid = Null \/ ~result.success THEN store
  ELSE registerOrder(store, cloid, result.orderId,
                     IF result.status # "none" THEN result.status
                     ELSE "submitted")

\* The open orders of the whole account, as exchange.getOpenOrders returns
\* them for cancelAllOrders: the agent's and every other actor's.
getOpenOrdersOfAccount(store) ==
  {[cloid |-> c, orderId |-> store[c].orderId] :
     c \in {d \in DOMAIN store :
              store[d].status \in {"open", "resting", "submitted"}}}
  \cup {[cloid |-> Null, orderId |-> o] : o \in OtherOrderIds}

\* orderOwnershipStore.getOpenOrders(coin): the entries in an active status.
\* (No entry of the model stays 'submitted' for the ten minutes after which
\* the store stops listing it.)
getOpenOrders(store) ==
  {[cloid |-> c, orderId |-> store[c].orderId] :
     c \in {d \in DOMAIN store :
              store[d].status \in {"open", "resting", "submitted"}}}

\* The store and the placement history a placement leaves: the request goes
\* out under a fresh cloid, and its parsed result is recorded unless the
\* request rejected (the catch block records nothing).
Placed(call, kind) ==
  LET cloid == _generateCloid
      result == _parseOrderResult(kind, cloid)
      answered == call.result = "submit" /\ call.venue = "resolved"
  IN [orders |-> IF answered THEN _recordOwnedOrder(orders, result, cloid)
                 ELSE orders,
      nextCloid |-> IF call.result = "submit" /\ cloid # Null
                      THEN nextCloid + 1 ELSE nextCloid,
      lastPlaced |-> IF answered /\ cloid # Null
                       THEN [cloid |-> cloid, op |-> call.op, kind |-> kind,
                             orderId |-> result.orderId]
                     ELSE lastPlaced]

\* The executor can still generate a cloid the model has room for.
CanPlace == IF agentId = Null THEN TRUE ELSE nextCloid <= MaxOrders

SetLedger(placed) ==
  /\ orders' = placed.orders
  /\ nextCloid' = placed.nextCloid
  /\ lastPlaced' = placed.lastPlaced

MarketCall(size, reduceOnly, midK, leverageForOrder, outcome) ==
  LET read == IF size <= 0 \/ reduceOnly THEN CacheNow ELSE CacheAfterRead
      availableBalance == read.state
      effectiveLev == Min(leverageForOrder, maxLeverage)
      sized == size > 0 /\ midK # 0 /\ ~reduceOnly
      maxSize == IF sized THEN MaxSize(availableBalance, effectiveLev, midK)
                 ELSE 0
      capped == IF sized /\ size > maxSize THEN maxSize ELSE size
      result ==
        IF size <= 0 THEN "invalid_size"
        ELSE IF midK = 0 THEN "no_price"
        ELSE IF reduceOnly THEN "submit"
        ELSE IF size > maxSize /\ maxSize <= 0 THEN "insufficient_balance"
        ELSE IF RequiredMarginExceeds(capped, availableBalance, effectiveLev,
                                      midK)
          THEN "insufficient_margin"
        ELSE "submit"
      cache == IF result = "submit" THEN AfterVenueRequest(read, outcome, TRUE)
               ELSE read
  IN [cache |-> cache,
      call |-> [op |-> "market", reduceOnly |-> reduceOnly,
                requested |-> size, maxSize |-> maxSize,
                submitted |-> IF result = "submit" THEN capped ELSE 0,
                result |-> result,
                venue |-> IF result = "submit" THEN outcome ELSE "none",
                cacheAtReturn |-> cache.state]]

placeMarketOrder(size, reduceOnly, midK, leverageForOrder, outcome, kind) ==
  LET done == MarketCall(size, reduceOnly, midK, leverageForOrder, outcome)
  IN /\ CanPlace
     /\ SetCache(done.cache)
     /\ execCall' = done.call
     /\ SetLedger(Placed(done.call, kind))
     /\ UNCHANGED <<venueBalance, lastRead, agentId, sweepRequests,
                    queryVars,
                 utilsVars, engineVars, safetyVars>>

\* The shape shared by the placements that do no sizing: round and validate
\* the size, make the exchange request, parse the result.  The value is the
\* cache and the call record the handler leaves.
PlaceOrder(op, size, priceOk, outcome, invalidates) ==
  LET result == IF size <= 0 THEN "invalid_size"
                ELSE IF ~priceOk THEN "no_price"
                ELSE "submit"
      cache == IF result = "submit"
                 THEN AfterVenueRequest(CacheNow, outcome, invalidates)
               ELSE CacheNow
  IN [cache |-> cache,
      call |-> [op |-> op, reduceOnly |-> FALSE, requested |-> size,
                maxSize |-> 0,
                submitted |-> IF result = "submit" THEN size ELSE 0,
                result |-> result,
                venue |-> IF result = "submit" THEN outcome ELSE "none",
                cacheAtReturn |-> cache.state]]

placeLimitOrder(size, outcome, kind) ==
  LET done == PlaceOrder("limit", size, TRUE, outcome, TRUE)
  IN /\ CanPlace
     /\ SetCache(done.cache)
     /\ execCall' = done.call
     /\ SetLedger(Placed(done.call, kind))
     /\ UNCHANGED <<venueBalance, lastRead, agentId, sweepRequests,
                    queryVars,
                 utilsVars, engineVars, safetyVars>>

placeStopLoss(size, outcome, kind) ==
  LET done == PlaceOrder("stop_loss", size, TRUE, outcome, FALSE)
  IN /\ CanPlace
     /\ SetCache(done.cache)
     /\ execCall' = done.call
     /\ SetLedger(Placed(done.call, kind))
     /\ UNCHANGED <<venueBalance, lastRead, agentId, sweepRequests,
                    queryVars,
                 utilsVars, engineVars, safetyVars>>

placeTakeProfit(size, outcome, kind) ==
  LET done == PlaceOrder("take_profit", size, TRUE, outcome, FALSE)
  IN /\ CanPlace
     /\ SetCache(done.cache)
     /\ execCall' = done.call
     /\ SetLedger(Placed(done.call, kind))
     /\ UNCHANGED <<venueBalance, lastRead, agentId, sweepRequests,
                    queryVars,
                 utilsVars, engineVars, safetyVars>>

\* placeTrailingStop reads the mid price and returns placeStopLoss(...).
placeTrailingStop(size, midK, outcome, kind) ==
  LET done == PlaceOrder("trailing_stop", size, midK # 0, outcome, FALSE)
  IN /\ CanPlace
     /\ SetCache(done.cache)
     /\ execCall' = done.call
     /\ SetLedger(Placed(done.call, kind))
     /\ UNCHANGED <<venueBalance, lastRead, agentId, sweepRequests,
                    queryVars,
                 utilsVars, engineVars, safetyVars>>

\* The record of a cancellation; `requests`: an exchange request was made.
Cancelled(op, requests, outcome, cache) ==
  [op |-> op, reduceOnly |-> FALSE, requested |-> 0, maxSize |-> 0,
   submitted |-> 0,
   result |-> IF requests THEN "cancel" ELSE "nothing_to_cancel",
   venue |-> IF requests THEN outcome ELSE "none",
   cacheAtReturn |-> cache.state]

\* cancelOrder(coin, orderId): any order id the caller names.
cancelOrder(orderId, outcome, answer) ==
  LET cache == AfterVenueRequest(CacheNow, outcome, FALSE)
  IN /\ SetCache(cache)
     /\ execCall' = Cancelled("cancel_order", TRUE, outcome, cache)
     /\ orders' = IF outcome = "resolved" /\ answer = "ok" /\ agentId # Null
                    THEN markByOrderId(orders, orderId, "cancelled")
                  ELSE orders
     /\ UNCHANGED <<venueBalance, lastRead, agentId, nextCloid, lastPlaced,
                    sweepRequests, queryVars,
                 utilsVars, engineVars, safetyVars>>

cancelOrderByCloid(cloid, outcome, answer) ==
  LET cache == AfterVenueRequest(CacheNow, outcome, FALSE)
  IN /\ SetCache(cache)
     /\ execCall' = Cancelled("cancel_by_cloid", TRUE, outcome, cache)
     /\ orders' = IF outcome = "resolved" /\ answer = "ok" /\ agentId # Null
                    THEN markByCloid(orders, cloid, "cancelled")
                  ELSE orders
     /\ UNCHANGED <<venueBalance, lastRead, agentId, nextCloid, lastPlaced,
                    sweepRequests, queryVars,
                 utilsVars, engineVars, safetyVars>>

\* The store after the cancel task of one owned order and the marking of its
\* terminal failure: by order id when the entry has one, else by cloid.
CancelTask(store, order, answer) ==
  IF answer = "ok"
    THEN IF order.orderId # Null
           THEN markByOrderId(store, order.orderId, "cancelled")
         ELSE markByCloid(store, order.cloid, "cancelled")
  ELSE IF answer = "gone" /\ order.cloid # Null
    THEN markByCloid(store, order.cloid, "closed_external")
  ELSE store

RECURSIVE CancelTasks(_, _, _)
CancelTasks(store, ownedOrders, answers) ==
  IF ownedOrders = {} THEN store
  ELSE LET order == CHOOSE o \in ownedOrders : TRUE
           answer == IF order.cloid \in DOMAIN answers
                       THEN answers[order.cloid] ELSE "failed"
       IN CancelTasks(CancelTask(store, order, answer),
                      ownedOrders \ {order}, answers)

\* cancelAgentOrders(coin): without a store it fails at once; with no owned
\* open order it returns at once; otherwise it cancels each owned order
\* through cancelOrder / cancelOrderByCloid, which catch their own errors,
\* marks the terminal failures, prunes the store and invalidates the cache.
\* (prune() drops terminal entries older than an hour, which no clock of the
\* model reaches.)
cancelAgentOrders(answers) ==
  LET ownedOrders == IF agentId = Null THEN {} ELSE getOpenOrders(orders)
      requests == ownedOrders # {}
      cache == IF requests THEN invalidateClearinghouseCache ELSE CacheNow
  IN /\ SetCache(cache)
     /\ execCall' = Cancelled("cancel_agent_orders", requests, "resolved",
                              cache)
     /\ orders' = CancelTasks(orders, ownedOrders, answers)
     /\ sweepRequests' = IF agentId = Null THEN sweepRequests
                         ELSE {order.orderId : order \in ownedOrders}
     /\ UNCHANGED <<venueBalance, lastRead, agentId, nextCloid, lastPlaced,
                    queryVars,
                 utilsVars, engineVars, safetyVars>>

\* In SpecExec the executor stands alone (no agentId, so no store): the kind
\* of the venue's reply and the order a cancellation names leave no trace.
NextExec ==
  \/ getClearinghouseState
  \/ \E balance \in Balances : VenueAccountChanges(balance)
  \/ CacheTimePasses
  \/ \E size \in Lots, reduceOnly \in BOOLEAN, midK \in MidPricesK,
        leverageForOrder \in Leverages, outcome \in VenueOutcomes :
        placeMarketOrder(size, reduceOnly, midK, leverageForOrder, outcome,
                         "resting")
  \/ \E size \in Lots, outcome \in VenueOutcomes :
        placeLimitOrder(size, outcome, "resting")
  \/ \E size \in Lots, outcome \in VenueOutcomes :
        placeStopLoss(size, outcome, "resting")
  \/ \E size \in Lots, outcome \in VenueOutcomes :
        placeTakeProfit(size, outcome, "resting")
  \/ \E size \in Lots, midK \in MidPricesK, outcome \in VenueOutcomes :
        placeTrailingStop(size, midK, outcome, "resting")
  \/ \E outcome \in VenueOutcomes : cancelOrder(VenueOid(1), outcome, "ok")
  \/ \E outcome \in VenueOutcomes : cancelOrderByCloid(1, outcome, "ok")
  \/ cancelAgentOrders([c \in Cloids |-> "ok"])

SpecExec == InitStandalone /\ [][NextExec]_vars

\* The executor of an agent: placements of every kind under the agent's
\* cloids, cancellations by id and by cloid, and the ownership sweep.
NextLedger ==
  \/ \E reduceOnly \in BOOLEAN, outcome \in VenueOutcomes, kind \in ReplyKinds :
        placeMarketOrder(MaxLots, reduceOnly, 25, 10, outcome, kind)
  \/ \E outcome \in VenueOutcomes, kind \in ReplyKinds :
        placeLimitOrder(MaxLots, outcome, kind)
  \/ \E outcome \in VenueOutcomes, kind \in ReplyKinds :
        placeStopLoss(MaxLots, outcome, kind)
  \/ \E outcome \in VenueOutcomes, kind \in ReplyKinds :
        placeTakeProfit(MaxLots, outcome, kind)
  \/ \E midK \in MidPricesK, outcome \in VenueOutcomes, kind \in ReplyKinds :
        placeTrailingStop(MaxLots, midK, outcome, kind)
  \/ \E orderId \in AgentOrderIds \cup OtherOrderIds,
        outcome \in VenueOutcomes, answer \in CancelAnswers :
        cancelOrder(orderId, outcome, answer)
  \/ \E cloid \in Cloids, outcome \in VenueOutcomes, answer \in CancelAnswers :
        cancelOrderByCloid(cloid, outcome, answer)
  \/ \E answers \in [Cloids -> CancelAnswers] : cancelAgentOrders(answers)

SpecLedger == Init /\ [][NextLedger]_vars

\* The stop-loss orders of an agent in its ownership store: placements, the
\* ownership sweep, and the fills the position tracker reports for them.
NextOwnership ==
  \/ \E outcome \in VenueOutcomes, kind \in ReplyKinds :
        placeStopLoss(MaxLots, outcome, kind)
  \/ \E answers \in [Cloids -> CancelAnswers] : cancelAgentOrders(answers)
  \/ \E pnl \in PnlValues, stored \in BOOLEAN, cloid \in Cloids :
        _handleSlTpFill(pnl, stored, VenueOid(cloid), cloid)

SpecOwnership == Init /\ [][NextOwnership]_vars

(***************************************************************************)
(* Account queries running concurrently: getClearinghouseState() in the    *)
(* two segments its await divides it into.                                 *)
(***************************************************************************)
\* A query calls getClearinghouseState(): a fresh cached state is returned
\* at once; otherwise the clearinghouseState request goes out and the query
\* awaits it.
getClearinghouseStateCall(query) ==
  /\ queryPc[query] = "idle"
  /\ IF CacheFresh
       THEN /\ lastRead' = [served |-> "cache", stale |-> cacheStale]
            /\ UNCHANGED queryPc
     ELSE /\ queryPc' = [queryPc EXCEPT ![query] = "awaiting"]
          /\ UNCHANGED lastRead
  /\ UNCHANGED <<_clearinghouseCache, _clearinghouseCacheTime, venueBalance,
                 cacheStale, execCall, ledgerVars, utilsVars, engineVars,
                 safetyVars>>

\* The request of a query resolves, and the rest of getClearinghouseState()
\* stores the state; or it rejects, and the query's catch block runs.
getClearinghouseStateReturn(query, outcome) ==
  /\ queryPc[query] = "awaiting"
  /\ queryPc' = [queryPc EXCEPT ![query] = "idle"]
  /\ IF outcome = "resolved"
       THEN /\ SetCache([state |-> venueBalance, time |-> now,
                         stale |-> FALSE])
            /\ lastRead' = [served |-> "venue", stale |-> FALSE]
     ELSE UNCHANGED <<_clearinghouseCache, _clearinghouseCacheTime,
                      cacheStale, lastRead>>
  /\ UNCHANGED <<venueBalance, execCall, ledgerVars, utilsVars, engineVars,
                 safetyVars>>

NextQueries ==
  \/ \E query \in Queries : getClearinghouseStateCall(query)
  \/ \E query \in Queries, outcome \in VenueOutcomes :
        getClearinghouseStateReturn(query, outcome)
  \/ \E balance \in Balances : VenueAccountChanges(balance)
  \/ CacheTimePasses

SpecQueries == Init /\ [][NextQueries]_vars

(***************************************************************************)
(* utils.js: retryWithBackoff(fn, maxRetries, baseDelay).                  *)
(***************************************************************************)
\* What one invocation of fn does: it returns, it throws an error whose text
\* names the rate limit ('429', 'Too Many Requests'), or it throws another.
FnOutcomes == {"returns", "throws_429", "throws_other"}
\* baseDelay in ms: a short one, the default, and the one placeMarketOrder
\* passes.
BaseDelays == {500, 1000, 2000}
\* maxRetries a caller passes; with -1 the loop body never runs.
MaxRetriesValues == (0 - 1) .. MaxMaxRetries

\* the executor's other state, which utils.js never touches
execNoUtils == <<_clearinghouseCache, _clearinghouseCacheTime, venueBalance,
                 cacheStale, execCall, lastRead, ledgerVars, queryVars>>

\* The catch block retries: the error names the rate limit and attempts
\* remain.
ShouldRetryOnAnyError(outcome, attempt, maxRetries) ==
  outcome # "returns" /\ attempt < maxRetries

ShouldRetry(outcome, attempt, maxRetries) ==
  outcome = "throws_429" /\ attempt < maxRetries

\* retryWithBackoff is called: up to the first test of the loop.
retryWithBackoff(maxRetries, baseDelay) ==
  /\ retry.state \in {"idle", "returned", "thrown"}
  /\ retry' = [state |-> IF 0 <= maxRetries THEN "calling" ELSE "thrown",
               maxRetries |-> maxRetries, baseDelay |-> baseDelay,
               attempt |-> 0, outcomes |-> <<>>, delays |-> <<>>]
  /\ UNCHANGED <<trackerVars, fileVars, _userEventCallbacks, engineVars,
                 safetyVars, execNoUtils>>

\* One pass of the loop body: await fn(), and the catch block up to its
\* sleep or throw.
RetryAttempt(outcome) ==
  /\ retry.state = "calling"
  /\ retry' =
       [retry EXCEPT
          !.outcomes = Append(@, outcome),
          !.state = IF outcome = "returns" THEN "returned"
                    ELSE IF ShouldRetry(outcome, retry.attempt,
                                        retry.maxRetries)
                      THEN "sleeping"
                    ELSE "thrown",
          !.delays = IF ShouldRetry(outcome, retry.attempt, retry.maxRetries)
                       THEN Append(@, retry.baseDelay * (2 ^ retry.attempt))
                     ELSE @]
  /\ UNCHANGED <<trackerVars, fileVars, _userEventCallbacks, engineVars,
                 safetyVars, execNoUtils>>

\* The sleep ends: continue, attempt++, and the loop test.
RetrySleepEnds ==
  /\ retry.state = "sleeping"
  /\ retry' = [retry EXCEPT
                 !.attempt = @ + 1,
                 !.state = IF retry.attempt + 1 <= retry.maxRetries
                             THEN "calling" ELSE "thrown"]
  /\ UNCHANGED <<trackerVars, fileVars, _userEventCallbacks, engineVars,
                 safetyVars, execNoUtils>>

NextRetry ==
  \/ \E maxRetries \in MaxRetriesValues, baseDelay \in BaseDelays :
        retryWithBackoff(maxRetries, baseDelay)
  \/ \E outcome \in FnOutcomes : RetryAttempt(outcome)
  \/ RetrySleepEnds

SpecRetry == Init /\ [][NextRetry]_vars

(***************************************************************************)
(* utils.js: PositionTracker, and the agent's routing of user fills to it. *)
(***************************************************************************)
\* Sizes are in coins, prices in USD, and money (fees, PnL) in units of
\* 1 / FeeScale USD, in which the fee rate is a whole number.  The sizes
\* and prices below keep every quotient the tracker computes a whole number.
\* The agent of the model trades one coin; SL/TP orders can be registered
\* for either.
TradedCoins == {"BTC"}
Sides == {"buy", "sell"}
TradeSizes == {2, 4}
TrackerPrices == {10, 20}
\* options.defaultTakerFeeRate: the agent passes the executor's takerFeeRate
defaultTakerFeeRate == takerFeeRate
\* The fee of a trade at the taker rate, and the fee a caller or the venue
\* reports for an exit: that one, or none.
TakerFee(size, price) == size * price * defaultTakerFeeRate
ExitFees(size, price) == {0, TakerFee(size, price)}
SlTpOrderIds == 1 .. MaxSlTpOrders
\* A fill names a registered order or another one.
FillOids == 1 .. MaxSlTpOrders + 1

Tracker ==
  [openPositions |-> openPositions, closedPositions |-> closedPositions,
   pendingSlTp |-> pendingSlTp, pendingSlTpByCloid |-> pendingSlTpByCloid]

RECURSIVE Gcd(_, _)
Gcd(a, b) == IF b = 0 THEN a ELSE Gcd(b, a % b)

\* The quotient a / b (b > 0) of a floating-point division, in lowest terms.
Quotient(a, b) ==
  LET g == Gcd(IF a < 0 THEN 0 - a ELSE a, b)
  IN [num |-> a \div g, den |-> b \div g]

_calculatePnl(entry, exit) ==
  LET grossPnl == IF entry.side = "buy"
                    THEN (exit.price - entry.price) * exit.size * FeeScale
                  ELSE (entry.price - exit.price) * exit.size * FeeScale
      totalFees == entry.fee + exit.fee
      netPnl == grossPnl - totalFees
      positionValue == entry.price * entry.size * FeeScale
  IN [gross |-> grossPnl, net |-> netPnl,
      percent |-> IF positionValue > 0
                    THEN Quotient(netPnl * 100, positionValue)
                  ELSE Quotient(0, 1),
      estimated |-> FALSE]

\* The part of the entry fee that goes with `size` coins of a position of
\* entrySize coins: position.entry.fee * (size / entrySize).
PortionFeeWhole(fee, size, entrySize) == fee

PortionFee(fee, size, entrySize) == (fee * size) \div entrySize

\* closePosition(coin, side, size, price, ...): the tracker it leaves and
\* the closed position it returns (NoRecord for null).
closePosition(t, coin, size, price, fee, orderType) ==
  LET position == t.openPositions[coin]
      entrySize == position.size
      closeSize == Min(size, entrySize)
      exit == [size |-> closeSize, price |-> price, fee |-> fee,
               orderType |-> orderType]
      portion == IF closeSize < entrySize
                   THEN [position EXCEPT
                           !.size = closeSize,
                           !.fee = PortionFee(position.fee, closeSize,
                                              entrySize)]
                 ELSE position
      remaining == IF closeSize < entrySize
                     THEN [position EXCEPT
                             !.size = entrySize - closeSize,
                             !.fee = PortionFee(position.fee,
                                                entrySize - closeSize,
                                                entrySize)]
                   ELSE NoPosition
      closed == [coin |-> coin, status |-> "closed", entry |-> portion,
                 exit |-> exit, pnl |-> _calculatePnl(portion, exit)]
  IN IF size <= 0 \/ price <= 0 \/ position = NoPosition
       THEN [t |-> t, closedPosition |-> NoRecord]
     ELSE [t |-> [t EXCEPT !.closedPositions = Append(@, closed),
                           !.openPositions[coin] = remaining],
           closedPosition |-> closed]

\* openPosition(coin, side, size, price, ..., fee): an opposite-side position
\* is closed at the new trade's price with an estimated fee; a same-side one
\* is added to at the weighted average price; else a new position.
openPosition(t, coin, side, size, price, fee) ==
  LET existing == t.openPositions[coin]
      opposite == existing # NoPosition /\ existing.side # side
      estimatedExitFee == existing.size * price * defaultTakerFeeRate
      exit == [size |-> existing.size, price |-> price,
               fee |-> estimatedExitFee, orderType |-> "estimated_close"]
      closedPos == [coin |-> coin, status |-> "closed_opposite_overwrite",
                    entry |-> existing, exit |-> exit,
                    pnl |-> _calculatePnl(existing, exit)]
      currentExisting == IF opposite THEN NoPosition ELSE existing
      newSize == currentExisting.size + size
      position ==
        IF currentExisting # NoPosition
          THEN [side |-> side, size |-> newSize,
                price |-> (currentExisting.price * currentExisting.size
                             + price * size) \div newSize,
                fee |-> currentExisting.fee + fee]
        ELSE [side |-> side, size |-> size, price |-> price, fee |-> fee]
  IN IF size <= 0 \/ price <= 0 THEN t
     ELSE [t EXCEPT
             !.closedPositions = IF opposite THEN Append(@, closedPos) ELSE @,
             !.openPositions[coin] = position]

registerSlTpOrders(t, coin, order) ==
  IF order.orderId = Null THEN t
  ELSE [t EXCEPT
          !.pendingSlTp[order.orderId] =
             [coin |-> coin, cloid |-> order.cloid,
              orderType |-> order.orderType],
          !.pendingSlTpByCloid =
             IF order.cloid # Null
               THEN [@ EXCEPT ![order.cloid] = order.orderId]
             ELSE @]

\* removeSlTpOrders that removes nothing
removeSlTpOrdersNot(t, coin) == t

removeSlTpOrders(t, coin) ==
  LET ofCoin == {oid \in DOMAIN t.pendingSlTp : t.pendingSlTp[oid].coin = coin}
      cloids == {t.pendingSlTp[oid].cloid : oid \in ofCoin}
  IN [t EXCEPT
        !.pendingSlTp = [oid \in DOMAIN t.pendingSlTp |->
                           IF oid \in ofCoin THEN NoPending
                           ELSE t.pendingSlTp[oid]],
        !.pendingSlTpByCloid = [c \in DOMAIN t.pendingSlTpByCloid |->
                                  IF c \in cloids THEN Null
                                  ELSE t.pendingSlTpByCloid[c]]]

\* a fill that leaves the filled order and its counterpart pending
PendingKept(t, event, entry) == t

\* The clean-up of handleFillEvent after the close: the filled order is
\* deleted from both maps, then removeSlTpOrders(coin) drops every order of
\* the coin.
PendingCleaned(t, event, entry) ==
  LET cleaned ==
        [t EXCEPT
           !.pendingSlTpByCloid =
              IF entry.cloid # Null THEN [@ EXCEPT ![entry.cloid] = Null]
              ELSE @,
           !.pendingSlTp =
              IF event.oid \in DOMAIN @ THEN [@ EXCEPT ![event.oid] = NoPending]
              ELSE @]
  IN removeSlTpOrders(cleaned, entry.coin)

\* handleFillEvent(event): the tracker it leaves, whether the fill matched a
\* pending SL/TP order, that order's coin, and the closed position handed to
\* the onSlTpFill callback (NoRecord for null).
handleFillEvent(t, event) ==
  LET byOid == IF event.oid \in DOMAIN t.pendingSlTp
                 THEN t.pendingSlTp[event.oid] ELSE NoPending
      mappedOid == IF event.cloid \in DOMAIN t.pendingSlTpByCloid
                     THEN t.pendingSlTpByCloid[event.cloid] ELSE Null
      entry == IF byOid # NoPending THEN byOid
               ELSE IF event.cloid # Null /\ mappedOid # Null
                 THEN t.pendingSlTp[mappedOid]
               ELSE NoPending
      done == closePosition(t, entry.coin, event.sz, event.px, event.fee,
                            entry.orderType)
  IN IF event.oid = Null \/ entry = NoPending
       THEN [t |-> t, matched |-> FALSE, coin |-> "none",
             closedPosition |-> NoRecord]
     ELSE [t |-> PendingCleaned(done.t, event, entry), matched |-> TRUE,
           coin |-> entry.coin, closedPosition |-> done.closedPosition]

RECURSIVE _checkPendingSlTpAgainstFills(_, _)
_checkPendingSlTpAgainstFills(t, recentFills) ==
  IF recentFills = <<>> THEN t
  ELSE LET fill == Head(recentFills)
           pending == /\ fill.oid \in DOMAIN t.pendingSlTp
                      /\ t.pendingSlTp[fill.oid] # NoPending
           next == IF pending
                     THEN handleFillEvent(t, [fill EXCEPT !.cloid = Null]).t
                   ELSE t
       IN _checkPendingSlTpAgainstFills(next, Tail(recentFills))

\* The number of fills the fallback hands to handleFillEvent and that it
\* handles, each with one onSlTpFill call.
RECURSIVE FallbackHandled(_, _)
FallbackHandled(t, recentFills) ==
  IF recentFills = <<>> THEN 0
  ELSE LET fill == Head(recentFills)
           pending == /\ fill.oid \in DOMAIN t.pendingSlTp
                      /\ t.pendingSlTp[fill.oid] # NoPending
           done == handleFillEvent(t, [fill EXCEPT !.cloid = Null])
       IN IF pending
            THEN (IF done.matched THEN 1 ELSE 0)
                   + FallbackHandled(done.t, Tail(recentFills))
          ELSE FallbackHandled(t, Tail(recentFills))

\* shouldRemove that sees only a position absent from the exchange
ShouldRemoveWhenAbsent(side, exchangeSize) == exchangeSize = 0

\* shouldRemove of reconcile, exchangeSize being the signed size of the
\* coin's exchange position, 0 when the exchange has none.
ShouldRemove(side, exchangeSize) ==
  \/ exchangeSize = 0
  \/ side = "buy" /\ exchangeSize < 0
  \/ side = "sell" /\ exchangeSize > 0

\* The history record reconcile writes for a stale position; exitPrice is
\* the coin's current mid, 0 when there is none.
ExternalClose(coin, position, exitPrice) ==
  LET estimatedExitFee == IF exitPrice > 0
                            THEN position.size * exitPrice * defaultTakerFeeRate
                          ELSE 0
      gross == IF position.side = "buy"
                 THEN (exitPrice - position.price) * position.size * FeeScale
               ELSE (position.price - exitPrice) * position.size * FeeScale
      entryValue == position.price * position.size * FeeScale
      totalFees == position.fee + estimatedExitFee
  IN [coin |-> coin, status |-> "closed_external", entry |-> position,
      exit |-> [size |-> position.size, price |-> exitPrice,
                fee |-> estimatedExitFee, orderType |-> "external"],
      pnl |-> IF exitPrice > 0
                THEN [gross |-> gross, net |-> gross - totalFees,
                      percent |-> IF entryValue > 0
                                    THEN Quotient((gross - totalFees) * 100,
                                                  entryValue)
                                  ELSE Quotient(0, 1),
                      estimated |-> TRUE]
              ELSE [gross |-> 0, net |-> 0 - position.fee,
                    percent |-> Quotient(0, 1), estimated |-> TRUE]]

\* The size drift of reconcile: the local size differs from the size of
\* the exchange position by more than 10% of the latter.
SizeDrift(localPos, exchangeSize) ==
  LET exchangeAbs == IF exchangeSize < 0 THEN 0 - exchangeSize ELSE exchangeSize
      drift == IF localPos.size < exchangeAbs THEN exchangeAbs - localPos.size
               ELSE localPos.size - exchangeAbs
  IN exchangeAbs > 0 /\ drift * 100 > 10 * exchangeAbs

\* a reconcile that takes the size of the exchange position on a drift
DriftCorrected(localPos, exchangeSize) ==
  IF SizeDrift(localPos, exchangeSize)
    THEN [localPos EXCEPT !.size = IF exchangeSize < 0 THEN 0 - exchangeSize
                                   ELSE exchangeSize]
  ELSE localPos

\* The local position reconcile leaves when the exchange holds one of the
\* same direction: the branch only counts and logs a drift.
DriftKept(localPos, exchangeSize) == localPos

\* delete this.openPositions[coin] left out
KeptOpen(open, coin) == open

RemovedFromOpen(open, coin) == [open EXCEPT ![coin] = NoPosition]

\* The loop of reconcile over the tracked coins, in their order.
RECURSIVE ReconcileCoins(_, _, _, _)
ReconcileCoins(t, trackedCoins, exchangeSizes, currentMids) ==
  IF trackedCoins = <<>> THEN t
  ELSE LET coin == Head(trackedCoins)
           localPos == t.openPositions[coin]
           next ==
             IF localPos # NoPosition
                /\ ShouldRemove(localPos.side, exchangeSizes[coin])
               THEN [t EXCEPT
                       !.closedPositions =
                          Append(@, ExternalClose(coin, localPos,
                                                  currentMids[coin])),
                       !.openPositions = RemovedFromOpen(@, coin)]
             ELSE IF localPos # NoPosition
               THEN [t EXCEPT
                       !.openPositions[coin] =
                          DriftKept(localPos, exchangeSizes[coin])]
             ELSE t
       IN ReconcileCoins(next, Tail(trackedCoins), exchangeSizes, currentMids)

reconcile(t, exchangeSizes, currentMids, recentFills) ==
  ReconcileCoins(_checkPendingSlTpAgainstFills(t, recentFills),
                 <<"BTC", "ETH">>, exchangeSizes, currentMids)

\* The run of closes of one position that `partials` follows, after a close
\* of `before` that returned `closed`.
PartialsAfter(before, closed) ==
  IF closed = NoRecord THEN partials
  ELSE IF partials.entry = NoPosition \/ Len(partials.closes) >= MaxPartials
    THEN [entry |-> before, closes |-> <<closed>>]
  ELSE [partials EXCEPT !.closes = Append(@, closed)]

SetTracker(t) ==
  /\ openPositions' = t.openPositions
  /\ closedPositions' = t.closedPositions
  /\ pendingSlTp' = t.pendingSlTp
  /\ pendingSlTpByCloid' = t.pendingSlTpByCloid

\* what no method of the tracker touches
trackerRest == <<retry, fileVars, _userEventCallbacks, engineVars,
                 safetyVars, execNoUtils>>

\* The actions that add to the history take `room`, the number of closed
\* positions the history of the model holds.

\* positionTracker.openPosition(...), as logTrade calls it for an entry
OpenPositionCall(coin, side, size, price, fee, room) ==
  LET before == openPositions[coin]
      t == openPosition(Tracker, coin, side, size, price, fee)
  IN /\ before # NoPosition /\ before.side = side
          => before.size + size <= MaxPositionSize
     /\ Len(t.closedPositions) <= room
     /\ SetTracker(t)
     /\ lastOp' = [NoOp EXCEPT !.op = "open", !.coin = coin]
     /\ partials' = NoPartials
     /\ UNCHANGED trackerRest

\* positionTracker.closePosition(...), as logTrade calls it for an exit
ClosePositionCall(coin, size, price, fee, room) ==
  LET before == openPositions[coin]
      done == closePosition(Tracker, coin, size, price, fee, "market")
  IN /\ Len(done.t.closedPositions) <= room
     /\ SetTracker(done.t)
     /\ lastOp' = [NoOp EXCEPT !.op = "close", !.coin = coin]
     /\ partials' = PartialsAfter(before, done.closedPosition)
     /\ UNCHANGED trackerRest

\* BaseAgent.registerSlTpOrders(coin, ...) for one placed order
RegisterSlTpOrders(coin, order) ==
  /\ SetTracker(registerSlTpOrders(Tracker, coin, order))
  /\ lastOp' = [NoOp EXCEPT !.op = "register", !.coin = coin]
  /\ UNCHANGED <<partials, trackerRest>>

\* BaseAgent.clearSlTpOrders(coin)
ClearSlTpOrders(coin) ==
  /\ SetTracker(removeSlTpOrders(Tracker, coin))
  /\ lastOp' = [NoOp EXCEPT !.op = "clear", !.coin = coin]
  /\ UNCHANGED <<partials, trackerRest>>

\* The fan-out loop of the subscribeUserEvents callback: every closure of
\* the array is called with the event, and what one of them throws (the
\* closures listed in `throwing`) is swallowed.  The result is the set of
\* the closures that were called.
RECURSIVE FanOut(_, _)
FanOut(callbacks, throwing) ==
  IF callbacks = <<>> THEN {}
  ELSE {Head(callbacks)} \cup FanOut(Tail(callbacks), throwing)

\* registerEventTrigger('userFill', condition, callback): the trigger and
\* its callback are stored, and a closure that hands every fill of an event
\* to the callback is pushed on _userEventCallbacks.
registerUserFillTrigger ==
  /\ nextTriggerId <= MaxTriggers
  /\ activeTriggers' = [id \in DOMAIN activeTriggers \cup {nextTriggerId} |->
        IF id = nextTriggerId THEN [type |-> "event"]
        ELSE activeTriggers[id]]
  /\ triggerCallbacks' = triggerCallbacks \cup {nextTriggerId}
  /\ _userEventCallbacks' = Append(_userEventCallbacks, nextTriggerId)
  /\ nextTriggerId' = nextTriggerId + 1
  /\ UNCHANGED <<runVars, lastRegister, now, monitorVars, cbRunning,
                 ghostVars, lifeVars, wsVars, safetyVars, execNoUtils, retry,
                 trackerVars, fileVars>>

\* The agent's subscribeUserEvents callback for an event of one fill that
\* is not a liquidation of the agent's own position: handleFillEvent(fill),
\* whose match invokes onSlTpFill once, and then the fan-out to the
\* closures of the userFill triggers.
UserFill(event, throwing) ==
  LET done == handleFillEvent(Tracker, event)
      before == IF done.matched THEN openPositions[done.coin] ELSE NoPosition
  IN /\ Len(done.t.closedPositions) <= MaxClosed
     /\ SetTracker(done.t)
     /\ lastOp' = [NoOp EXCEPT
                     !.op = "fill", !.coin = done.coin, !.before = before,
                     !.event = IF done.matched THEN event ELSE NoEvent,
                     !.matched = done.matched,
                     !.closed = done.closedPosition,
                     !.callbacks = IF done.matched THEN 1 ELSE 0,
                     !.payload = done.closedPosition,
                     !.fanOut = _userEventCallbacks,
                     !.observed = FanOut(_userEventCallbacks, throwing),
                     !.run =
                        IF /\ lastOp.op = "fill"
                           /\ lastOp.run.oid = event.oid
                           /\ lastOp.run.filled < lastOp.run.size
                          THEN [lastOp.run EXCEPT !.filled = @ + event.sz]
                        ELSE IF done.matched
                          THEN [oid |-> event.oid, coin |-> done.coin,
                                size |-> before.size, filled |-> event.sz]
                        ELSE NoRun]
     /\ partials' = PartialsAfter(before, done.closedPosition)
     /\ UNCHANGED trackerRest

\* The same callback for a fill whose liquidation.liquidatedUser is the
\* agent: it calls positionTracker.handleLiquidationFill(fill), which the
\* PositionTracker class does not define (nor does its constructor keep the
\* onLiquidation option), so the call throws a TypeError and nothing of the
\* tracker changes.  The throw leaves the callback before its fan-out loop:
\* no closure of a userFill trigger is called.
UserLiquidationFill(event) ==
  /\ event.coin \in TradedCoins
  /\ lastOp' = [NoOp EXCEPT !.op = "liquidation", !.coin = event.coin,
                            !.before = openPositions[event.coin],
                            !.event = event,
                            !.fanOut = _userEventCallbacks]
  /\ UNCHANGED <<openPositions, closedPositions, pendingSlTp,
                 pendingSlTpByCloid, partials, trackerRest>>

\* positionTracker.reconcile(exchangePositions, currentMids, recentFills),
\* for the exchange position and the mid of the traded coin.
Reconcile(exchangeSize, mid, recentFills, room) ==
  LET input == [exchangeSize |-> exchangeSize, mid |-> mid,
                recentFills |-> recentFills]
      exchangeSizes == [coin \in Coins |->
                          IF coin \in TradedCoins THEN exchangeSize ELSE 0]
      currentMids == [coin \in Coins |->
                        IF coin \in TradedCoins THEN mid ELSE 0]
      afterFills == _checkPendingSlTpAgainstFills(Tracker, recentFills)
      t == reconcile(Tracker, exchangeSizes, currentMids, recentFills)
      coin == CHOOSE c \in TradedCoins : TRUE
      drifted == {c \in Coins :
                    /\ afterFills.openPositions[c] # NoPosition
                    /\ ~ShouldRemove(afterFills.openPositions[c].side,
                                     exchangeSizes[c])
                    /\ SizeDrift(afterFills.openPositions[c],
                                 exchangeSizes[c])}
  IN /\ Len(t.closedPositions) <= room
     /\ SetTracker(t)
     /\ lastOp' = [NoOp EXCEPT
                     !.op = "reconcile", !.coin = coin,
                     !.before = afterFills.openPositions[coin],
                     !.input = input,
                     !.repeated = lastOp.op = "reconcile" /\ lastOp.input = input,
                     !.changed = t # Tracker,
                     !.driftWarnings = Cardinality(drifted),
                     !.fallback =
                        [seen |-> /\ lastOp.op = "fill"
                                  /\ lastOp.matched
                                  /\ \E i \in DOMAIN recentFills :
                                        recentFills[i].oid = lastOp.event.oid,
                         handled |-> FallbackHandled(Tracker, recentFills),
                         changed |-> afterFills # Tracker]]
     /\ partials' = NoPartials
     /\ UNCHANGED trackerRest

\* The fills the venue reports for the traded coin: of a registered order
\* by its id, of another order, and of another order id under the cloid of
\* a registered order.
FillEvents ==
  {[oid |-> ids[1], cloid |-> ids[2], coin |-> coin, sz |-> sz, px |-> px,
    fee |-> fee] :
     ids \in {<<oid, Null>> : oid \in FillOids}
               \cup {<<MaxSlTpOrders + 1, 1>>},
     coin \in TradedCoins, sz \in TradeSizes, px \in {20},
     fee \in {TakerFee(1, 10)}}

\* The fills getUserFills returns to the SL/TP fallback of reconcile.
RecentFills ==
  {<<>>} \cup {<<event>> : event \in {e \in FillEvents : e.oid = 1}}

\* An SL/TP order the agent placed, under the cloid of its placement; the
\* first is a stop-loss, the others take-profits.
SlTpOrders ==
  {[orderId |-> orderId, cloid |-> orderId,
    orderType |-> IF orderId = 1 THEN "stop_loss" ELSE "take_profit"] :
     orderId \in SlTpOrderIds}

\* Trading without SL/TP orders: entries, exits and reconciliation.
NextPositions ==
  \/ \E coin \in TradedCoins, side \in Sides, size \in TradeSizes,
        price \in TrackerPrices :
        OpenPositionCall(coin, side, size, price, TakerFee(size, price),
                         MaxClosed)
  \/ \E coin \in TradedCoins, size \in TradeSizes, price \in TrackerPrices :
        \E fee \in ExitFees(size, price) :
          ClosePositionCall(coin, size, price, fee, MaxClosed)
  \/ \E exchangeSize \in {0, 4, 0 - 4}, mid \in {0, 20} :
        Reconcile(exchangeSize, mid, <<>>, MaxClosed)

SpecPositions == Init /\ [][NextPositions]_vars

\* A position closed in parts: entries at one price, and the exits.
NextPartials ==
  \/ \E coin \in TradedCoins, side \in Sides, size \in TradeSizes :
        OpenPositionCall(coin, side, size, 10, TakerFee(size, 10), MaxPartials)
  \/ \E coin \in TradedCoins, size \in TradeSizes, price \in TrackerPrices :
        \E fee \in ExitFees(size, price) :
          ClosePositionCall(coin, size, price, fee, MaxPartials)

SpecPartials == Init /\ [][NextPartials]_vars

\* A position under SL/TP orders: the entry, the registration of the
\* orders, the fills the venue reports, and reconciliation with its
\* fallback.
NextFills ==
  \/ \E coin \in TradedCoins, side \in Sides, size \in TradeSizes :
        OpenPositionCall(coin, side, size, 10, TakerFee(size, 10), MaxClosed)
  \/ \E coin \in Coins, order \in SlTpOrders : RegisterSlTpOrders(coin, order)
  \/ \E coin \in Coins : ClearSlTpOrders(coin)
  \/ \E event \in FillEvents : UserFill(event, {})
  \/ \E event \in {e \in FillEvents : e.oid = 1} :
        UserLiquidationFill(event)
  \/ \E exchangeSize \in {0, 4}, mid \in {20}, recentFills \in RecentFills :
        Reconcile(exchangeSize, mid, recentFills, MaxClosed + 1)

SpecFills == Init /\ [][NextFills]_vars

\* The user events of the feed with userFill triggers of the strategy: the
\* entry, the registration of a stop-loss, the triggers, and the events.
NextUserEvents ==
  \/ \E coin \in TradedCoins, side \in Sides, size \in TradeSizes :
        OpenPositionCall(coin, side, size, 10, TakerFee(size, 10), MaxClosed)
  \/ \E coin \in TradedCoins, order \in {o \in SlTpOrders : o.orderId = 1} :
        RegisterSlTpOrders(coin, order)
  \/ registerUserFillTrigger
  \/ \E event \in {e \in FillEvents : e.oid = 1},
        throwing \in SUBSET TriggerIds :
        UserFill(event, throwing)
  \/ \E event \in {e \in FillEvents : e.oid = 1} :
        UserLiquidationFill(event)

SpecUserEvents == Init /\ [][NextUserEvents]_vars

(***************************************************************************)
(* The JSON files: PositionTracker._savePositions / _saveHistory /         *)
(* _saveTrades and OrderOwnershipStore._save.                              *)
(***************************************************************************)
\* The files a method of the tracker saves after it changed the state:
\* the positions (an entry added to a position), the positions and then the
\* history (a close, a flip, a reconcile), the trades (recordTrade).
TrackerSaves == {<<"positions">>, <<"positions", "history">>, <<"trades">>}

\* what the file writes do not touch
fileRest == <<retry, trackerVars, _userEventCallbacks, engineVars,
              safetyVars, execNoUtils>>

\* a chain whose next write does not wait for the one before
PreviousWriteIgnored(file) == TRUE

\* this._writeQueue[file].then(...): the callback runs when the promise of
\* the write before it has settled.
PreviousWriteDone(file) == writing[file] = {}

\* A method of the tracker changes the state and calls the save of each of
\* its files: the state is serialized at the call, and the write is chained
\* on the promise of the file.
TrackerMethodSaves(files) ==
  LET saved == {files[i] : i \in DOMAIN files}
  IN /\ \A file \in saved : saveCount[file] < MaxSaves
     /\ saveCount' = [file \in Files |->
                        IF file \in saved THEN saveCount[file] + 1
                        ELSE saveCount[file]]
     /\ _writeQueue' = [file \in Files |->
                          IF file \in saved
                            THEN Append(_writeQueue[file], saveCount[file] + 1)
                          ELSE _writeQueue[file]]
     /\ UNCHANGED <<writing, fileOnDisk, fileRest>>

\* The next write chained on the promise of a tracker file starts.
ChainedWriteStarts(file) ==
  /\ _writeQueue[file] # <<>>
  /\ PreviousWriteDone(file)
  /\ writing' = [writing EXCEPT ![file] = @ \cup {Head(_writeQueue[file])}]
  /\ _writeQueue' = [_writeQueue EXCEPT ![file] = Tail(@)]
  /\ UNCHANGED <<saveCount, fileOnDisk, fileRest>>

\* registerOrder / markByCloid / prune of the store change the state and
\* call _save(): fsp.writeFile is called at once with the serialized state.
StoreMethodSaves ==
  /\ saveCount["ledger"] < MaxSaves
  /\ saveCount' = [saveCount EXCEPT !["ledger"] = @ + 1]
  /\ writing' = [writing EXCEPT !["ledger"] = @ \cup {saveCount["ledger"] + 1}]
  /\ UNCHANGED <<_writeQueue, fileOnDisk, fileRest>>

\* A write finishes: the file holds its data.  Of the writes to one file
\* that are under way together any may finish first.
WriteFinishes(file, data) ==
  /\ data \in writing[file]
  /\ writing' = [writing EXCEPT ![file] = @ \ {data}]
  /\ fileOnDisk' = [fileOnDisk EXCEPT ![file] = data]
  /\ UNCHANGED <<saveCount, _writeQueue, fileRest>>

NextFiles ==
  \/ \E files \in TrackerSaves : TrackerMethodSaves(files)
  \/ \E file \in TrackerFiles : ChainedWriteStarts(file)
  \/ StoreMethodSaves
  \/ \E file \in Files, data \in 1 .. MaxSaves : WriteFinishes(file, data)

SpecFiles == Init /\ [][NextFiles]_vars

(***************************************************************************)
(* Properties.                                                             *)
(***************************************************************************)

\* C1: for a price trigger with an above/below condition, an evaluation that
\* has a previously observed price invokes the callback if and only if the
\* condition was not met at the previously observed price and is met at the
\* current one (so never again while the condition stays met).
C1_PriceFiresOnlyOnTransition ==
  (/\ lastEval.type = "price"
   /\ lastEval.kind \in {"above", "below"}
   /\ lastEval.prev # Null
   /\ lastEval.hasCallback)
  => (lastEval.invoked <=> (~lastEval.prevMet /\ lastEval.met))

C3_NoRefireWhileConditionStaysMet ==
  (/\ lastEval.type \in {"technical", "composite"}
   /\ lastEval.prevMet
   /\ lastEval.met)
  => ~lastEval.invoked

\* C4: when the price pass of a tick is over (its mids were obtained), every
\* registered price trigger has been evaluated in it, whatever happened
\* while evaluating the others.
C4_EveryPriceTriggerEvaluatedInTick ==
  (monitorPc = "afterPrice" /\ tick.midsOk)
  => \A id \in DOMAIN activeTriggers :
        activeTriggers[id].type = "price" => id \in tick.visited

\* C5: a callback is never invoked while an earlier invocation of the same
\* trigger's callback is still in progress.
C5_NoInvocationWhileOneInProgress ==
  lastInvoke.id # 0 => ~lastInvoke.concurrent

\* C6: a removed trigger owns no timer, no subscription and no engine state,
\* and no callback is invoked for a trigger that has been removed.
C6_RemovedTriggerIsGone ==
  /\ \A id \in TriggerIds :
        (id < nextTriggerId /\ id \notin DOMAIN activeTriggers)
        => (/\ id \notin intervalIds
            /\ \A i \in DOMAIN _subscriptions :
                  id \notin _subscriptions[i].callbacks
            /\ id \notin triggerCallbacks)
  /\ lastInvoke.id # 0 => lastInvoke.registered

\* C7: once shutdown has completed, the monitor loop evaluates nothing any
\* more (it has exited, or is between two iterations with the running flag
\* cleared), no scheduled timer is live, and the websocket is closed for
\* good with no reconnect pending.
C7_AfterShutdownAllStopped ==
  shutdownPc = "done"
  => (/\ ~isRunning
      /\ monitorPc \in {"off", "starting", "loop", "sleep", "exited"}
      /\ intervalIds = {}
      /\ wsSocket = "none"
      /\ ~isConnected
      /\ _intentionalClose
      /\ ~_reconnectTimer)

\* C8: checkSafetyLimits returns allowed = false whenever the pnl the agent
\* realized on the current day, by whichever path (logTrade, stop-loss or
\* take-profit fill, liquidation), is a loss beyond the daily loss limit.
C8_DailyLossBlocksWhateverThePath ==
  (lastSafetyCheck.called /\ lastSafetyCheck.realizedToday < 0 - dailyLossLimit)
  => ~lastSafetyCheck.allowed

\* C9: a market order that is not reduce-only and asks for more than the
\* fee-aware maximum size, the maximum being positive, is submitted to the
\* venue at the maximum size; it is not rejected.
C9_OversizedMarketOrderIsClamped ==
  (/\ execCall.op = "market"
   /\ ~execCall.reduceOnly
   /\ execCall.maxSize > 0
   /\ execCall.requested > execCall.maxSize)
  => (execCall.result = "submit" /\ execCall.submitted = execCall.maxSize)

\* C10: when a placement or cancellation call whose exchange request the
\* venue answered returns, the account-state cache is empty; and no read is
\* served from a state cached before such a call.
C10_CacheInvalidatedAfterEveryCall ==
  /\ execCall.venue = "resolved" => execCall.cacheAtReturn = NoState
  /\ lastRead.served = "cache" => ~lastRead.stale


\* C11: the ownership sweep (cancelAgentOrders) asks the venue to cancel only
\* orders that the agent's ownership store holds, and so never an order that
\* another actor placed on the shared account.
C11_SweepCancelsOnlyOwnedOrders ==
  /\ sweepRequests \subseteq {orders[cloid].orderId : cloid \in DOMAIN orders}
  /\ sweepRequests \cap OtherOrderIds = {}

\* A sweep has sent cancel requests.
C11_Witness ==
  /\ execCall.op = "cancel_agent_orders"
  /\ execCall.result = "cancel"
  /\ sweepRequests # {}

\* C12 (as stated): every placement the venue answered is recorded in the
\* ownership store under the order's cloid, whether the venue accepted the
\* order or rejected it.
C12_EveryAnsweredPlacementIsRecorded ==
  lastPlaced.cloid # Null => orders[lastPlaced.cloid] # NoEntry

\* C12 (amended): a placement the venue answered is recorded under the
\* order's cloid, with the venue's order id, exactly when the venue accepted
\* it (the order rests or was filled); a rejected order leaves no entry.
C12_PlacementRecordedIffAccepted ==
  lastPlaced.cloid # Null =>
    IF lastPlaced.kind \in {"resting", "filled"}
      THEN /\ orders[lastPlaced.cloid] # NoEntry
           /\ orders[lastPlaced.cloid].orderId = lastPlaced.orderId
    ELSE orders[lastPlaced.cloid] = NoEntry

\* A stop-loss the venue accepted is in the store as an open order.
C12_Witness ==
  /\ lastPlaced.op = "stop_loss"
  /\ lastPlaced.kind = "resting"
  /\ orders[lastPlaced.cloid].status = "open"
  /\ orders[lastPlaced.cloid].orderId = lastPlaced.orderId

\* The clearinghouseState requests in flight.
RoundTripsInFlight == {query \in Queries : queryPc[query] = "awaiting"}

\* C13: account queries (positions, account value, available balance) made
\* concurrently while the account-state cache is empty or expired result in
\* a single venue round trip: at most one clearinghouseState request is in
\* flight at any time.
C13_ConcurrentQueriesShareOneRoundTrip ==
  Cardinality(RoundTripsInFlight) <= 1

\* C14: retryWithBackoff invokes the operation at most maxRetries + 1 times;
\* it invokes it again only after a rate-limit error, after a delay that
\* doubles from baseDelay (baseDelay, 2 baseDelay, 4 baseDelay, ...); any
\* other error is rethrown at once.
C14_RetryOnlyOnRateLimitWithDoublingDelay ==
  LET calls == Len(retry.outcomes)
  IN /\ calls <= retry.maxRetries + 1
     /\ \A i \in 1 .. calls - 1 : retry.outcomes[i] = "throws_429"
     /\ \A i \in DOMAIN retry.delays :
          retry.delays[i] = retry.baseDelay * (2 ^ (i - 1))
     /\ Len(retry.delays) <= calls
     /\ calls <= Len(retry.delays) + 1
     /\ (calls > 0 /\ retry.outcomes[calls] = "throws_other")
          => retry.state = "thrown"

\* Rate-limited every time: the operation ran maxRetries + 1 times, with
\* the delays between the runs, and the last error was thrown.
C14_Witness ==
  /\ retry.state = "thrown"
  /\ retry.maxRetries >= 2
  /\ Len(retry.outcomes) = retry.maxRetries + 1
  /\ Len(retry.delays) = retry.maxRetries
  /\ \A i \in DOMAIN retry.outcomes : retry.outcomes[i] = "throws_429"
\* The last record of the closed history, NoRecord when it is empty.
LastClosed ==
  IF closedPositions = <<>> THEN NoRecord
  ELSE closedPositions[Len(closedPositions)]

\* C15: every closed-position record (full close, partial close,
\* opposite-side auto-close, external close by reconciliation with or
\* without a mid price) has net = gross - (entryFee + exitFee) and
\* percent = net / (entryPrice * entrySize) * 100.
C15_ClosedRecordsKeepPnlInvariant ==
  \A i \in DOMAIN closedPositions :
    LET record == closedPositions[i]
    IN /\ record.pnl.net
            = record.pnl.gross - (record.entry.fee + record.exit.fee)
       /\ record.pnl.percent
            = Quotient(record.pnl.net * 100,
                       record.entry.price * record.entry.size * FeeScale)

\* C16: when reconcile finds a tracked position whose coin has no nonzero
\* exchange position, or one of the opposite direction, the position leaves
\* the open set and is appended to the closed history with status
\* closed_external and a PnL marked estimated.
C16_ReconcileClosesStalePositionAsExternal ==
  (/\ lastOp.op = "reconcile"
   /\ lastOp.before # NoPosition
   /\ \/ lastOp.input.exchangeSize = 0
      \/ lastOp.before.side = "buy" /\ lastOp.input.exchangeSize < 0
      \/ lastOp.before.side = "sell" /\ lastOp.input.exchangeSize > 0)
    => /\ openPositions[lastOp.coin] = NoPosition
       /\ LastClosed.coin = lastOp.coin
       /\ LastClosed.status = "closed_external"
       /\ LastClosed.entry = lastOp.before
       /\ LastClosed.pnl.estimated

\* reconcile met a long position while the exchange holds a short one, and
\* closed it as external.
C16_Witness ==
  /\ lastOp.op = "reconcile"
  /\ lastOp.before.side = "buy"
  /\ lastOp.input.exchangeSize < 0
  /\ openPositions[lastOp.coin] = NoPosition
  /\ LastClosed.status = "closed_external"

\* C17: reconcile called twice in a row with the same exchange positions,
\* mid prices and recent fills changes nothing of the open positions, the
\* closed history or the pending SL/TP table on the second call.
C17_SecondReconcileChangesNothing ==
  (lastOp.op = "reconcile" /\ lastOp.repeated) => ~lastOp.changed

\* reconcile ran twice with the same fill of a registered stop-loss among
\* the recent fills: the history holds the close by that fill and the order
\* is no longer pending.
C17_Witness ==
  /\ lastOp.op = "reconcile"
  /\ lastOp.repeated
  /\ lastOp.input.recentFills # <<>>
  /\ LastClosed.exit.orderType = "stop_loss"
  /\ pendingSlTp[1] = NoPending

\* C18: when a fill matches a pending SL/TP order, by order id or by cloid,
\* the position is closed at the fill's price, size (at most the whole
\* position) and fee, no pending SL/TP entry of that coin remains, and
\* onSlTpFill is invoked once with the closed position.
C18_MatchedFillClosesAndClearsCoin ==
  (lastOp.op = "fill" /\ lastOp.matched)
    => /\ \A oid \in DOMAIN pendingSlTp :
            pendingSlTp[oid].coin # lastOp.coin
       /\ \A cloid \in DOMAIN pendingSlTpByCloid :
            pendingSlTpByCloid[cloid] # Null
              => pendingSlTp[pendingSlTpByCloid[cloid]].coin # lastOp.coin
       /\ lastOp.callbacks = 1
       /\ lastOp.payload = lastOp.closed
       /\ lastOp.before # NoPosition
            => /\ lastOp.closed = LastClosed
               /\ LastClosed.coin = lastOp.coin
               /\ LastClosed.exit.price = lastOp.event.px
               /\ LastClosed.exit.size
                    = Min(lastOp.event.sz, lastOp.before.size)
               /\ LastClosed.exit.fee = lastOp.event.fee
               /\ openPositions[lastOp.coin]
                    = IF lastOp.event.sz < lastOp.before.size
                        THEN [lastOp.before EXCEPT
                                !.size = @ - lastOp.event.sz,
                                !.fee = (@ * (lastOp.before.size
                                                - lastOp.event.sz))
                                          \div lastOp.before.size]
                      ELSE NoPosition

\* A fill under another order id matched a pending order by its cloid and
\* closed the whole position.
C18_Witness ==
  /\ lastOp.op = "fill"
  /\ lastOp.matched
  /\ lastOp.event.cloid # Null
  /\ lastOp.before # NoPosition
  /\ lastOp.closed = LastClosed
  /\ LastClosed.exit.price = lastOp.event.px
  /\ openPositions[lastOp.coin] = NoPosition
  /\ lastOp.callbacks = 1

\* C19: a fill that reports a liquidation of the agent's account closes the
\* tracked position of its coin, whether or not an SL/TP order is registered
\* for the coin.
C19_LiquidationFillClosesPosition ==
  (lastOp.op = "liquidation" /\ lastOp.before # NoPosition)
    => /\ openPositions[lastOp.coin] = NoPosition
       /\ LastClosed.coin = lastOp.coin
       /\ LastClosed.entry = lastOp.before

\* C20: for a position of size S closed in two steps of sizes A and B,
\* A + B = S, the net PnLs of the two records sum to the net PnL of one
\* full close of size S at the size-weighted exit price with the summed
\* exit fees.
C20_PartialClosesSumToFullClose ==
  LET entry == partials.entry
      first == partials.closes[1]
      second == partials.closes[2]
      weighted == first.exit.price * first.exit.size
                    + second.exit.price * second.exit.size
      full == [size |-> entry.size, price |-> weighted \div entry.size,
               fee |-> first.exit.fee + second.exit.fee,
               orderType |-> "market"]
  IN (/\ Len(partials.closes) = 2
      /\ first.exit.size + second.exit.size = entry.size
      /\ weighted % entry.size = 0)
       => first.pnl.net + second.pnl.net = _calculatePnl(entry, full).net

\* A position closed in two parts at different prices, fees paid on both.
C20_Witness ==
  /\ Len(partials.closes) = 2
  /\ partials.closes[1].exit.size + partials.closes[2].exit.size
       = partials.entry.size
  /\ partials.closes[1].exit.price # partials.closes[2].exit.price
  /\ partials.closes[1].exit.fee > 0
  /\ partials.closes[2].exit.fee > 0
  /\ partials.entry.fee > 0
  /\ \A coin \in Coins : openPositions[coin] = NoPosition


\* C21: when reconcile finds an exchange position of the same direction
\* whose size differs from the local size by more than the drift threshold,
\* it leaves the local position's size, entry price and fee as they are and
\* only raises a warning.
C21_SizeDriftOnlyWarns ==
  LET exchangeSize == lastOp.input.exchangeSize
      exchangeAbs == IF exchangeSize < 0 THEN 0 - exchangeSize
                     ELSE exchangeSize
      sameDirection == \/ lastOp.before.side = "buy" /\ exchangeSize > 0
                       \/ lastOp.before.side = "sell" /\ exchangeSize < 0
  IN (/\ lastOp.op = "reconcile"
      /\ lastOp.before # NoPosition
      /\ sameDirection
      /\ \/ (lastOp.before.size - exchangeAbs) * 100 > 10 * exchangeAbs
         \/ (exchangeAbs - lastOp.before.size) * 100 > 10 * exchangeAbs)
       => /\ openPositions[lastOp.coin] = lastOp.before
          /\ ~lastOp.changed
          /\ lastOp.driftWarnings = 1

\* reconcile met a short position of 2 while the exchange holds a short of
\* 4, warned and left it.
C21_Witness ==
  /\ lastOp.op = "reconcile"
  /\ lastOp.before.side = "sell"
  /\ lastOp.before.size = 2
  /\ lastOp.input.exchangeSize = 0 - 4
  /\ lastOp.driftWarnings = 1
  /\ openPositions[lastOp.coin] = lastOp.before

\* C30: registerCompositeTrigger called with fewer than 2 sub-conditions or
\* with an operator other than AND/OR fails with a configuration error, and
\* no trigger entry or callback entry has been added when it fails.
C30_BadCompositeThrowsBeforeAnyState ==
  (lastRegister.count # 0
   /\ (lastRegister.operator \notin {"AND", "OR"} \/ lastRegister.count < 2))
    => (lastRegister.threw /\ ~lastRegister.added)

\* A composite trigger was registered, and then a call with the operator
\* AND and one sub-condition threw: the engine holds the one trigger.
C30_Witness ==
  /\ lastRegister.operator = "AND"
  /\ lastRegister.count = 1
  /\ lastRegister.threw
  /\ ~lastRegister.added
  /\ DOMAIN activeTriggers = {1}
  /\ triggerCallbacks = {1}

\* C22 (as stated): after a reconnect, that is a successful connection after
\* the first one, a subscribe message has been sent exactly once for every
\* key in the subscription table, the keys registered while the connection
\* was down included.
C22_ReconnectSubscribesEachKeyOnce ==
  wsLast.op = "reopen"
    => \A i \in DOMAIN _subscriptions :
         Cardinality({j \in DOMAIN wsLast.sent :
                        wsLast.sent[j] = SubscribeMsg(_subscriptions[i].key)})
           = 1

\* C26: a key is in the subscription table exactly while its callback set
\* is non-empty.  The first callback of a key creates the key and emits one
\* subscribe message, a further callback of the key emits none, and the
\* removal of the last callback deletes the key and emits one unsubscribe
\* message.
C26_KeyLivesWhileItHasCallbacks ==
  /\ \A i \in DOMAIN _subscriptions :
       /\ _subscriptions[i].callbacks # {}
       /\ \A j \in DOMAIN _subscriptions :
            _subscriptions[i].key = _subscriptions[j].key => i = j
  /\ wsLast.op = "subscribe"
       => /\ wsLast.had = (wsLast.callbacks # {})
          /\ CallbacksOf(_subscriptions, wsLast.key)
               = wsLast.callbacks \cup {wsLast.callback}
          /\ wsLast.emitted = IF wsLast.had THEN <<>>
                              ELSE <<SubscribeMsg(wsLast.key)>>
  /\ (wsLast.op = "unsubscribe" /\ wsLast.had)
       => LET remaining == IF wsLast.callback = Null THEN {}
                           ELSE wsLast.callbacks \ {wsLast.callback}
          IN /\ HasKey(_subscriptions, wsLast.key) = (remaining # {})
             /\ CallbacksOf(_subscriptions, wsLast.key) = remaining
             /\ wsLast.emitted = IF remaining = {}
                                   THEN <<UnsubscribeMsg(wsLast.key)>>
                                 ELSE <<>>

\* The last callback of a key was removed while the other key stays: the
\* key is gone and one unsubscribe message was emitted.
C26_Witness ==
  /\ wsLast.op = "unsubscribe"
  /\ wsLast.callbacks = {wsLast.callback}
  /\ wsLast.callback # Null
  /\ wsLast.emitted = <<UnsubscribeMsg(wsLast.key)>>
  /\ ~HasKey(_subscriptions, wsLast.key)
  /\ _subscriptions # <<>>

\* C27: a message sent while the connection is down is put at the end of
\* the pending queue, and the next successful connect sends the queued
\* messages in the order they were queued, all of them, and leaves the queue
\* empty.
C27_QueuedMessagesAreFlushedInOrder ==
  /\ (wsLast.op \in {"subscribe", "unsubscribe"} /\ ~isConnected)
       => /\ wsLast.sent = <<>>
          /\ pendingQueue = wsLast.queuedBefore \o wsLast.emitted
  /\ wsLast.op \in {"open", "reopen"}
       => /\ pendingQueue = <<>>
          /\ Len(wsLast.sent) >= Len(wsLast.queuedBefore)
          /\ SubSeq(wsLast.sent, 1, Len(wsLast.queuedBefore))
               = wsLast.queuedBefore

\* A connect flushed a queue of a subscribe and an unsubscribe message, in
\* this order.
C27_Witness ==
  /\ wsLast.op \in {"open", "reopen"}
  /\ Len(wsLast.queuedBefore) = 2
  /\ wsLast.queuedBefore[1].method = "subscribe"
  /\ wsLast.queuedBefore[2].method = "unsubscribe"
  /\ SubSeq(wsLast.sent, 1, 2) = wsLast.queuedBefore
  /\ pendingQueue = <<>>

\* C23: after an unintentional disconnect at most _maxReconnectAttempts
\* reconnects are scheduled in a row; the socket close that exceeds the cap
\* calls the fatal-error callback and schedules no reconnect, and none is
\* scheduled afterwards.
C23_ReconnectAttemptsAreCapped ==
  /\ _reconnectAttempts <= _maxReconnectAttempts + 1
  /\ Len(reconnectDelays) <= _maxReconnectAttempts
  /\ _reconnectTimer => _reconnectAttempts <= _maxReconnectAttempts
  /\ _reconnectAttempts > _maxReconnectAttempts
       => /\ ~_reconnectTimer
          /\ wsSocket \notin {"connecting", "open"}
          /\ (wsLast.op = "socket_closed" /\ ~_intentionalClose)
               => wsLast.fatal = _onFatalError
  /\ wsLast.fatal => _reconnectAttempts > _maxReconnectAttempts

\* The reconnects of the cap were scheduled and failed, one after the
\* other; the last failure called the fatal-error callback and the manager
\* stays disconnected without a timer.
C23_Witness ==
  /\ wsLast.op = "socket_closed"
  /\ wsLast.fatal
  /\ _reconnectAttempts = _maxReconnectAttempts + 1
  /\ Len(reconnectDelays) = _maxReconnectAttempts
  /\ ~_reconnectTimer
  /\ wsSocket = "closed"

\* C24: once close() has been called no reconnect is attempted: no reconnect
\* timer is pending (one that was pending has been cleared, and a socket
\* close event that arrives later sets none) and no socket is connecting or
\* open.
C24_NoReconnectAfterClose ==
  _intentionalClose
    => /\ ~_reconnectTimer
       /\ wsSocket = "none"
       /\ ~isConnected

\* close() was called on an open connection, and the close event of the
\* socket it let go of has arrived since.
C24_Witness ==
  /\ _intentionalClose
  /\ wsLast.op = "socket_closed"
  /\ ~wsClosing
  /\ ~_reconnectTimer
  /\ wsSocket = "none"

\* C25 (as stated): in a run of failed reconnects the delay before attempt n
\* is base * 2^(n-1) limited to the maximum delay: it is not below that
\* value, the delays of the first three attempts increase strictly, and no
\* delay exceeds the maximum.
C25_DelaysIncreaseAndStayUnderMax ==
  \A n \in DOMAIN reconnectDelays :
    LET raw == WS_RECONNECT_BASE_MS * (2 ^ (n - 1))
    IN /\ reconnectDelays[n] >= IF raw < WS_RECONNECT_MAX_MS THEN raw
                                ELSE WS_RECONNECT_MAX_MS
       /\ reconnectDelays[n] <= WS_RECONNECT_MAX_MS
       /\ (n < 3 /\ n + 1 \in DOMAIN reconnectDelays)
            => reconnectDelays[n] < reconnectDelays[n + 1]

\* C28: the writes of each file of the position tracker run one at a time
\* and in the order of the save calls: at most one write of a file is under
\* way, it is older than every write still chained and newer than what the
\* file holds, and when no write of the file is left the file holds the
\* state of the latest save.
C28_TrackerWritesRunInSaveOrder ==
  \A file \in TrackerFiles :
    /\ Cardinality(writing[file]) <= 1
    /\ \A i \in DOMAIN _writeQueue[file] :
         /\ \A data \in writing[file] : data < _writeQueue[file][i]
         /\ fileOnDisk[file] < _writeQueue[file][i]
         /\ \A j \in DOMAIN _writeQueue[file] :
              i < j => _writeQueue[file][i] < _writeQueue[file][j]
    /\ \A data \in writing[file] : fileOnDisk[file] < data
    /\ (writing[file] = {} /\ _writeQueue[file] = <<>>)
         => fileOnDisk[file] = saveCount[file]

\* Three saves of the positions file were made back to back: the first has
\* been written, the second is being written and the third waits for it.
C28_Witness ==
  /\ saveCount["positions"] = 3
  /\ fileOnDisk["positions"] = 1
  /\ writing["positions"] = {2}
  /\ _writeQueue["positions"] = <<3>>

\* C29 (as stated): the writes of the owned-order ledger file are
\* serialized: no two of them are under way together, and when none is left
\* the file holds the state of the latest save.
C29_LedgerWritesAreSerialized ==
  /\ Cardinality(writing["ledger"]) <= 1
  /\ writing["ledger"] = {} => fileOnDisk["ledger"] = saveCount["ledger"]

\* C31 (as stated): every user event of the feed is passed to the fill
\* handling of the infrastructure and to every userFill callback of the
\* strategy; a failure of one of them, the handling of a liquidation fill
\* included, keeps none of the others from the event.
C31_EveryUserEventReachesEveryCallback ==
  lastOp.op \in {"fill", "liquidation"}
    => lastOp.observed = {lastOp.fanOut[i] : i \in DOMAIN lastOp.fanOut}

\* C32 (as stated): after a tick in which a trigger fired, a price, a
\* technical or a composite one, the loop sleeps the short duration, and
\* after a tick in which none fired the long one.
C32_SleepIsShortAfterAnyTriggerFired ==
  monitorPc = "sleep"
    => sleepMs = IF tick.fired THEN SleepAfterFireMs ELSE SleepIdleMs

\* C33: an inbound message goes to the callbacks of the exact key of its
\* channel and coin when that key is registered, else to those of the
\* channel-only key, else, on channel 'user', to those of the user-events
\* key; a message that matches no key is dropped: nothing is called,
\* nothing is raised, and the subscription table stays as it was.
C33_MessageGoesToFirstMatchingKey ==
  wsLast.op = "message"
    => LET msg == wsLast.msg
           subs == wsLast.subsBefore
           exactKey == msg.channel \o ":coin=" \o msg.coin
           userKey == "userEvents:user=" \o Address
           key == IF msg.channel = "" THEN "none"
                  ELSE IF msg.coin # "" /\ HasKey(subs, exactKey)
                    THEN exactKey
                  ELSE IF HasKey(subs, msg.channel) THEN msg.channel
                  ELSE IF msg.channel = "user" /\ HasKey(subs, userKey)
                    THEN userKey
                  ELSE "none"
       IN /\ wsLast.key = key
          /\ wsLast.called = CallbacksOf(subs, key)
          /\ ~wsLast.raised
          /\ _subscriptions = subs

\* A user event arrived while the trades of BTC and the user events are
\* subscribed: it went to the callback of the user-events key.
C33_Witness ==
  /\ wsLast.op = "message"
  /\ wsLast.msg.channel = "user"
  /\ HasKey(_subscriptions, "trades:coin=BTC")
  /\ wsLast.key = "userEvents:user=" \o Address
  /\ wsLast.called # {}

\* C34 (as stated): when the callback of a fired trigger throws, the edge
\* state of the trigger (the last price, or the last-condition-met flag) is
\* updated for that observation all the same, so that the next evaluation
\* under the same condition does not fire again.
C34_ThrowingCallbackStillUpdatesEdgeState ==
  (/\ monitorPc \in {"afterPrice", "techLoop", "compLoop"}
   /\ tick.threw
   /\ lastEval.invoked
   /\ evalCur = NoCur
   /\ lastEval.id \in DOMAIN activeTriggers)
    => IF lastEval.type = "price"
         THEN activeTriggers[lastEval.id].lastPrice = lastEval.cur
       ELSE activeTriggers[lastEval.id].lastConditionMet = lastEval.met

\* C35 (as stated): once the shutdown has begun to cancel the orders and to
\* close the positions, no trigger callback (polled, scheduled or event) is
\* invoked any more.
C35_NoCallbackOnceShutdownCloses == ~lastInvoke.closing

\* C36 (as stated): while the agent is paused no trigger callback of any
\* variant (price, technical, composite, scheduled, event) is invoked.
C36_NoCallbackWhilePaused == ~lastInvoke.paused

\* C37: of any number of shutdown() calls one starts _executeShutdown(); a
\* call made while that run is in flight gets its promise and starts nothing,
\* so the orders are cancelled and the positions closed once.
C37_ShutdownRunsOnce ==
  /\ shutdownCalls.runs <= 1
  /\ shutdownCalls.joined => _shutdownInProgress /\ shutdownCalls.runs = 1
  /\ shutdownPc # "idle" => shutdownCalls.runs = 1

\* A second shutdown() arrived while the first was cancelling and closing.
C37_Witness ==
  /\ shutdownCalls.joined
  /\ shutdownPc = "closing"
  /\ shutdownCalls.runs = 1

\* C38 (as stated): when the fill events of one SL/TP order that arrived in
\* a row add up to the size the position had when the first arrived, the
\* ledger holds no open position for the coin after the last of them.
C38_PartialFillsCloseThePosition ==
  (/\ lastOp.op = "fill"
   /\ lastOp.run.oid # Null
   /\ lastOp.run.size > 0
   /\ lastOp.run.filled = lastOp.run.size)
    => openPositions[lastOp.run.coin] = NoPosition

\* C39: a fill of an SL/TP order that the feed delivered and that the
\* recent fills of the next reconcile report again is not applied a second
\* time: the fallback changes nothing of the tracker and calls onSlTpFill
\* for no fill.
C39_FillAppliedAtMostOnce ==
  (lastOp.op = "reconcile" /\ lastOp.fallback.seen)
    => ~lastOp.fallback.changed /\ lastOp.fallback.handled = 0

\* The feed delivered a fill of half the position and the reconcile after
\* it got the same fill from the venue: the other half is still open.
C39_Witness ==
  /\ lastOp.op = "reconcile"
  /\ lastOp.fallback.seen
  /\ lastOp.before # NoPosition
  /\ lastOp.before.size = 2

\* C40 (as stated): once the record of an owned order has a terminal status
\* (filled, cancelled, closed_external) its status never changes again,
\* also when the notification of a fill and a cancellation sweep overlap.
C40_TerminalStatusIsFinal ==
  [][\A cloid \in Cloids :
       orders[cloid].status \in {"filled", "cancelled", "closed_external"}
         => orders'[cloid].status = orders[cloid].status]_vars
=============================================================================
